---- MODULE Spec2Model ----
(***************************************************************************)
(* Billing / record reconciliation engine of the dairy back-office:        *)
(* customers with a standing delivery schedule, quantity updates, daily    *)
(* records, monthly invoices, payments and the customers' advance balance. *)
(*                                                                         *)
(* Time.  A day is a positive integer; day d starts at instant             *)
(* d * TicksPerDay (local midnight) and a request that arrives on day d    *)
(* reads the clock at d * TicksPerDay + tod for some tod in TimesOfDay.    *)
(* The calendar has MonthsPerYear months of DaysPerMonth days.             *)
(***************************************************************************)
EXTENDS Integers, Sequences, FiniteSets, Bags, TLC

VARIABLES today, customers, records, updates, holidays, invoices, invoiceSeq,
          response, inflight

vars == <<today, customers, records, updates, holidays, invoices, invoiceSeq,
          response, inflight>>

recVars == <<records>>
updVars == <<updates>>
invVars == <<invoices, invoiceSeq>>

----------------------------------------------------------------------------
(* Bounds of the model *)

MaxCustomers == 2
MaxCustomersInv == 1
MaxRuns == 2
MaxDayRec == 2
MaxDayBack == 3
DaysPerMonth == 4
TicksPerDay == 2
MaxUpdates == 1
MaxUpdatesAdj == 2
MaxHolidays == 1
MaxRecords == 3
MaxRecordsInv == 2
MaxRecordsBatch == 4
MaxInvoices == 2
MaxInvoicesPay == 1
MaxPayments == 1
MaxPaymentsTx == 2
MaxAdvance == 3500
MaxOverdraw == 100

(* Program constants *)

MonthsPerYear == 12
GraceDays == 15

----------------------------------------------------------------------------
(* Calendar *)

TimesOfDay == 0..(TicksPerDay - 1)
Midnight(d) == d * TicksPerDay
DayOf(t) == t \div TicksPerDay
MonthIdx(d) == (d - 1) \div DaysPerMonth
DayOfMonth(d) == ((d - 1) % DaysPerMonth) + 1
MonthOfYear(d) == (MonthIdx(d) % MonthsPerYear) + 1
YearOf(d) == 1 + (MonthIdx(d) \div MonthsPerYear)
\* new Date(year, month - 1, 1) and new Date(year, month, 0)
FirstDayOfMonth(year, month) == ((year - 1) * MonthsPerYear + (month - 1)) * DaysPerMonth + 1
LastDayOfMonth(year, month) == ((year - 1) * MonthsPerYear + month) * DaysPerMonth

----------------------------------------------------------------------------
(* Generic helpers *)

RECURSIVE SumSeq(_)
SumSeq(s) == IF s = <<>> THEN 0 ELSE Head(s) + SumSeq(Tail(s))

RECURSIVE Flatten(_)
Flatten(ss) == IF ss = <<>> THEN <<>> ELSE Head(ss) \o Flatten(Tail(ss))

RemoveAt(s, i) == SubSeq(s, 1, i - 1) \o SubSeq(s, i + 1, Len(s))

Range(s) == {s[i] : i \in 1..Len(s)}

Min(a, b) == IF a <= b THEN a ELSE b

----------------------------------------------------------------------------
(* Delivery schedule model *)

Slots == {"morning", "evening"}

MilkItem(mt, sc, q, p) ==
    [milkType |-> mt, subcategory |-> sc, quantity |-> q, pricePerUnit |-> p,
     totalPrice |-> q * p]

\* calculateMilkItemTotals: item.totalPrice = item.quantity * item.pricePerUnit
calculateMilkItemTotals(schedule) ==
    [i \in 1..Len(schedule) |->
        [schedule[i] EXCEPT !.milkItems =
            [j \in 1..Len(schedule[i].milkItems) |->
                [schedule[i].milkItems[j] EXCEPT
                    !.totalPrice = schedule[i].milkItems[j].quantity
                                   * schedule[i].milkItems[j].pricePerUnit]]]]

\* customerSchema.pre('save'): one delivery per slot, then every total is
\* recomputed from the line items
CustomerSaveOk(cust) ==
    \A i, j \in 1..Len(cust.deliverySchedule) :
        i # j => cust.deliverySchedule[i].time # cust.deliverySchedule[j].time

CustomerPreSave(cust) ==
    LET sched == calculateMilkItemTotals(cust.deliverySchedule)
        sched2 == [i \in 1..Len(sched) |->
                     [sched[i] EXCEPT
                        !.totalQuantity = SumSeq([j \in 1..Len(sched[i].milkItems) |->
                                                    sched[i].milkItems[j].quantity]),
                        !.totalPrice = SumSeq([j \in 1..Len(sched[i].milkItems) |->
                                                    sched[i].milkItems[j].totalPrice])]]
    IN [cust EXCEPT
          !.deliverySchedule = sched2,
          !.totalDailyQuantity = SumSeq([i \in 1..Len(sched2) |-> sched2[i].totalQuantity]),
          !.totalDailyPrice = SumSeq([i \in 1..Len(sched2) |-> sched2[i].totalPrice])]

\* Request bodies of createCustomer / updateCustomer (totals as sent by the
\* client are not trusted by the code, so they are sent as 0 here)
RawItem(mt, sc, q, p) ==
    [milkType |-> mt, subcategory |-> sc, quantity |-> q, pricePerUnit |-> p,
     totalPrice |-> 0]
RawSlot(t, items) ==
    [time |-> t, milkItems |-> items, totalQuantity |-> 0, totalPrice |-> 0]

ScheduleA == << RawSlot("morning", << RawItem("cow", "full", 2, 60) >>) >>
ScheduleB == << RawSlot("morning", << RawItem("cow", "full", 2, 60),
                                      RawItem("buffalo", "full", 1, 40) >>),
                RawSlot("evening", << RawItem("cow", "full", 1, 60) >>) >>
ScheduleDup == << RawSlot("morning", << RawItem("cow", "full", 1, 60) >>),
                  RawSlot("morning", << RawItem("cow", "full", 1, 60) >>) >>
ScheduleInputs == {ScheduleA, ScheduleB, ScheduleDup}

MilkTypes == {"cow", "buffalo"}
Subcategories == {"full"}

CustomerIds == 1..MaxCustomers

----------------------------------------------------------------------------
(* Holiday oracle *)

\* (variant for C11: an oracle that never reports a holiday)
checkIfHoliday_Never(day) == FALSE

\* checkIfHoliday: an exact-date entry on that day, or a yearly entry with
\* the same month and day of month
checkIfHoliday(day) ==
    \/ \E h \in Range(holidays) :
          ~h.isRecurringYearly /\ DayOf(h.date) = day
    \/ \E h \in Range(holidays) :
          /\ h.isRecurringYearly
          /\ MonthOfYear(DayOf(h.date)) = MonthOfYear(day)
          /\ DayOfMonth(DayOf(h.date)) = DayOfMonth(day)

----------------------------------------------------------------------------
(* Record model and the daily record generator *)

\* recordSchema validators: quantity, pricePerUnit, totalPrice have min 0
RecordValid(rec) ==
    \A i \in 1..Len(rec.deliverySchedule) :
        \A j \in 1..Len(rec.deliverySchedule[i].milkItems) :
            LET it == rec.deliverySchedule[i].milkItems[j]
            IN it.quantity >= 0 /\ it.pricePerUnit >= 0 /\ it.totalPrice >= 0

\* Record.findOne({customer, date})
RecordExists(recs, c, day) ==
    \E r \in BagToSet(recs) : r.customer = c /\ r.date = day

\* Record.create appends one document to the collection (a bag: documents
\* that differ only in their _id are equal here and are counted)
InsertRecord(recs, rec) == recs (+) SetToBag({rec})

\* QuantityUpdate.find({customer, date: {$gte: startOfDay, $lte: endOfDay}})
UpdatesFor(c, day) ==
    SelectSeq(updates, LAMBDA u : u.customer = c /\ DayOf(u.date) = day)

\* updates.find(u => u.time === ... && milkType === ... && subcategory === ...):
\* index of the first match, 0 when there is none
FindUpdate(ups, time, item) ==
    LET matches == {k \in 1..Len(ups) :
                      /\ ups[k].time = time
                      /\ ups[k].milkType = item.milkType
                      /\ ups[k].subcategory = item.subcategory}
    IN IF matches = {} THEN 0
       ELSE CHOOSE k \in matches : \A m \in matches : k <= m

\* const quantity = update ? update.newQuantity : milkItem.quantity
EffectiveQuantity(ups, time, item) ==
    LET k == FindUpdate(ups, time, item)
    IN IF k # 0 THEN ups[k].newQuantity ELSE item.quantity

\* if (updates.isAccept === false) continue;  `updates` is the array that
\* find() returned; reading the property isAccept of an array gives undefined
ArrayIsAccept(ups) == "undefined"
SkipForUpdates(ups) == ArrayIsAccept(ups) = "false"

\* the loops of createDailyRecords / createHistoricalRecords that build the
\* record's deliverySchedule and the totals
BuildRecord(c, day, schedule, ups) ==
    LET items(i) ==
            [j \in 1..Len(schedule[i].milkItems) |->
                LET mi == schedule[i].milkItems[j]
                    q == EffectiveQuantity(ups, schedule[i].time, mi)
                IN [milkType |-> mi.milkType, subcategory |-> mi.subcategory,
                    quantity |-> q, pricePerUnit |-> mi.pricePerUnit,
                    totalPrice |-> q * mi.pricePerUnit]]
        sched == [i \in 1..Len(schedule) |->
                    [time |-> schedule[i].time,
                     milkItems |-> items(i),
                     totalQuantity |-> SumSeq([j \in 1..Len(items(i)) |-> items(i)[j].quantity]),
                     totalPrice |-> SumSeq([j \in 1..Len(items(i)) |-> items(i)[j].totalPrice])]]
    IN [customer |-> c, date |-> day, deliverySchedule |-> sched,
        totalDailyQuantity |-> SumSeq([i \in 1..Len(sched) |-> sched[i].totalQuantity]),
        totalDailyPrice |-> SumSeq([i \in 1..Len(sched) |-> sched[i].totalPrice])]

ActiveCustomers == {c \in DOMAIN customers : customers[c].isActive}

\* Customer.find({isActive: true}) returns the customers in insertion order
RECURSIVE SeqOfSet(_)
SeqOfSet(S) ==
    IF S = {} THEN <<>>
    ELSE LET m == CHOOSE x \in S : \A y \in S : x <= y
         IN <<m>> \o SeqOfSet(S \ {m})

\* (variant for C1: the generator without its existence check)
ExistingRecord_NoCheck(recs, c, day) == FALSE

\* Record.findOne({customer, date}) of the generator
ExistingRecord(recs, c, day) == RecordExists(recs, c, day)

\* Record.create: the schema validators and the unique index {date, customer}
RecordCreateOk(recs, rec) ==
    RecordValid(rec) /\ ~RecordExists(recs, rec.customer, rec.date)

\* The for-loop of createDailyRecords over the customers `cs`, starting from
\* the collection `recs`.  Result: the collection, the customers a record was
\* created for, and the customer for which Record.create threw (0 if none);
\* a throw leaves the loop.
RECURSIVE DailyLoop(_, _, _, _)
DailyLoop(cs, recs, created, day) ==
    IF cs = <<>> THEN [records |-> recs, created |-> created, failed |-> 0]
    ELSE LET c == Head(cs)
             ups == UpdatesFor(c, day)
             rec == BuildRecord(c, day, customers[c].deliverySchedule, ups)
         IN IF ExistingRecord(recs, c, day) THEN DailyLoop(Tail(cs), recs, created, day)
            ELSE IF SkipForUpdates(ups) THEN DailyLoop(Tail(cs), recs, created, day)
            ELSE IF ~RecordCreateOk(recs, rec)
                 THEN [records |-> recs, created |-> created, failed |-> c]
            ELSE DailyLoop(Tail(cs), InsertRecord(recs, rec), Append(created, c), day)

NoResponse == [op |-> "none", status |-> 0, customer |-> 0, info |-> <<>>]
Resp(op, status, c, info) == [op |-> op, status |-> status, customer |-> c, info |-> info]

\* POST /api/records/daily
createDailyRecords ==
    /\ IF checkIfHoliday(today)
       THEN /\ response' = Resp("createDailyRecords", 200, 0, <<>>)
            /\ UNCHANGED records
       ELSE LET r == DailyLoop(SeqOfSet(ActiveCustomers), records, <<>>, today)
            IN /\ BagCardinality(r.records) <= MaxRecords
               /\ records' = r.records
               /\ response' = IF r.failed # 0
                              THEN Resp("createDailyRecords", 500, r.failed, r.created)
                              ELSE Resp("createDailyRecords", 201, 0, r.created)
    /\ UNCHANGED <<today, customers, updates, holidays, invoices, invoiceSeq, inflight>>

(* The daily batch as the requests that run it: every await of the handler  *)
(* is a point where another request can run.  A request in flight is an     *)
(* entry of `inflight`; a finished one stays there with its answer.         *)

DailyRuns == {i \in 1..Len(inflight) : inflight[i].op = "createDailyRecords"}

\* the handler up to Customer.find({isActive: true})
dailyStart(maxRuns) ==
    /\ Len(inflight) < maxRuns
    /\ IF checkIfHoliday(today)
       THEN /\ inflight' = Append(inflight,
                   [op |-> "createDailyRecords", pc |-> "done", day |-> today,
                    all |-> <<>>, cs |-> <<>>, rec |-> <<>>, created |-> <<>>,
                    status |-> 200])
            /\ response' = Resp("createDailyRecords", 200, 0, <<>>)
       ELSE /\ inflight' = Append(inflight,
                   [op |-> "createDailyRecords", pc |-> "check", day |-> today,
                    all |-> SeqOfSet(ActiveCustomers), cs |-> SeqOfSet(ActiveCustomers),
                    rec |-> <<>>, created |-> <<>>, status |-> 0])
            /\ response' = response
    /\ UNCHANGED <<today, customers, records, updates, holidays, invoices, invoiceSeq>>

\* Record.findOne for the next customer, then QuantityUpdate.find and the
\* record built from the schedule
dailyCheck(i) ==
    /\ i \in DailyRuns
    /\ inflight[i].pc = "check"
    /\ inflight[i].cs # <<>>
    /\ LET run == inflight[i]
           c == Head(run.cs)
           ups == UpdatesFor(c, run.day)
       IN inflight' = [inflight EXCEPT ![i] =
             IF ExistingRecord(records, c, run.day) \/ SkipForUpdates(ups)
             THEN [run EXCEPT !.cs = Tail(run.cs)]
             ELSE [run EXCEPT !.pc = "create",
                              !.rec = <<BuildRecord(c, run.day,
                                                    customers[c].deliverySchedule, ups)>>]]
    /\ UNCHANGED <<today, customers, records, updates, holidays, invoices, invoiceSeq,
                   response>>

\* Record.create for the record built in the previous step; a rejected
\* create throws into the handler's catch
dailyCreate(i, maxRecords) ==
    /\ i \in DailyRuns
    /\ inflight[i].pc = "create"
    /\ LET run == inflight[i]
           rec == run.rec[1]
       IN IF RecordCreateOk(records, rec)
          THEN /\ BagCardinality(records) < maxRecords
               /\ records' = InsertRecord(records, rec)
               /\ inflight' = [inflight EXCEPT ![i] =
                     [run EXCEPT !.pc = "check", !.cs = Tail(run.cs), !.rec = <<>>,
                                 !.created = Append(run.created, rec.customer)]]
               /\ response' = response
          ELSE /\ records' = records
               /\ inflight' = [inflight EXCEPT ![i] =
                     [run EXCEPT !.pc = "done", !.rec = <<>>, !.status = 500]]
               /\ response' = Resp("createDailyRecords", 500, rec.customer, run.created)
    /\ UNCHANGED <<today, customers, updates, holidays, invoices, invoiceSeq>>

\* res.status(201) after the loop
dailyFinish(i) ==
    /\ i \in DailyRuns
    /\ inflight[i].pc = "check"
    /\ inflight[i].cs = <<>>
    /\ inflight' = [inflight EXCEPT ![i] = [@ EXCEPT !.pc = "done", !.status = 201]]
    /\ response' = Resp("createDailyRecords", 201, 0, inflight[i].created)
    /\ UNCHANGED <<today, customers, records, updates, holidays, invoices, invoiceSeq>>

----------------------------------------------------------------------------
(* Customers: creation with backfill, edit *)

\* joinedDate is sent as DD/MM/YYYY; split('/') and
\* new Date(parseInt(parts[2]), parseInt(parts[1]) - 1, parseInt(parts[0]))
FormatJoined(day) == <<DayOfMonth(day), MonthOfYear(day), YearOf(day)>>
ParseJoined(parts) == FirstDayOfMonth(parts[3], parts[2]) + parts[1] - 1

\* (variant for C21: the backfill runs through today)
Yesterday_Today == today

\* yesterday = new Date(); setDate(getDate() - 1); setHours(23, 59, 59, 999)
Yesterday == today - 1

\* The while-loop of createHistoricalRecords from `day` through yesterday
RECURSIVE HistoricalLoop(_, _, _, _, _)
HistoricalLoop(c, schedule, day, recs, created) ==
    IF day > Yesterday THEN [records |-> recs, created |-> created, ok |-> TRUE]
    ELSE LET rec == BuildRecord(c, day, schedule, <<>>)
         IN IF ~ExistingRecord(recs, c, day) /\ ~checkIfHoliday(day)
            THEN IF ~RecordCreateOk(recs, rec)
                 THEN [records |-> recs, created |-> created, ok |-> FALSE]
                 ELSE HistoricalLoop(c, schedule, day + 1, InsertRecord(recs, rec),
                                     Append(created, day))
            ELSE HistoricalLoop(c, schedule, day + 1, recs, created)

createHistoricalRecords(c, schedule, joinedDate, recs) ==
    LET startDate == ParseJoined(joinedDate)
    IN IF startDate > today
       THEN [records |-> recs, created |-> <<>>, ok |-> TRUE]
       ELSE HistoricalLoop(c, schedule, startDate, recs, <<>>)

\* customerSchema.pre('validate'): customerNo = last customerNo + 1, or 1
NextCustomerNo ==
    IF DOMAIN customers = {} THEN 1
    ELSE 1 + CHOOSE n \in DOMAIN customers : \A m \in DOMAIN customers : m <= n

JoinedInputs == {<<>>} \cup {<<FormatJoined(d)>> : d \in {1, MaxDayRec + 1}}

\* POST /api/customers.  The customer's _id is identified with its customerNo.
createCustomer(schedule, joined, maxCustomers, maxRecords) ==
    LET c == NextCustomerNo
        doc == [customerNo |-> c, isActive |-> TRUE, advance |-> 0,
                deliverySchedule |-> calculateMilkItemTotals(schedule),
                totalDailyQuantity |-> 0, totalDailyPrice |-> 0]
    IN /\ c \in 1..maxCustomers
       /\ IF ~CustomerSaveOk(doc)
          THEN /\ response' = Resp("createCustomer", 500, 0, <<>>)
               /\ UNCHANGED <<customers, records>>
          ELSE LET saved == CustomerPreSave(doc)
                   h == IF joined = <<>>
                        THEN [records |-> records, created |-> <<>>, ok |-> TRUE]
                        ELSE createHistoricalRecords(c, saved.deliverySchedule,
                                                     joined[1], records)
               IN /\ BagCardinality(h.records) <= maxRecords
                  /\ customers' = (c :> saved) @@ customers
                  /\ records' = h.records
                  /\ response' = Resp("createCustomer", 201, c, h.created)
       /\ UNCHANGED <<today, updates, holidays, invoices, invoiceSeq, inflight>>

\* (variant for C23: the customer's stored records follow the new schedule)
RecordsAfterScheduleEdit_Rebuilt(recs, c, schedule) ==
    LET mine == {r \in BagToSet(recs) : r.customer = c}
        others == {r \in BagToSet(recs) : r.customer # c}
    IN SetToBag(others) (+) SetToBag({BuildRecord(c, r.date, schedule, <<>>) : r \in mine})

\* updateCustomer saves the Customer document only; the Record collection
\* is not written
RecordsAfterScheduleEdit(recs, c, schedule) == recs

\* PUT /api/customers/:id (the fields used here: isActive, deliverySchedule)
updateCustomer(c, active, schedule) ==
    /\ IF c \notin DOMAIN customers
       THEN /\ response' = Resp("updateCustomer", 404, c, <<>>)
            /\ UNCHANGED <<customers, records>>
       ELSE LET doc == [customers[c] EXCEPT
                          !.isActive = IF active = <<>> THEN @ ELSE active[1],
                          !.deliverySchedule =
                              IF schedule = <<>> THEN @
                              ELSE calculateMilkItemTotals(schedule[1])]
            IN IF ~CustomerSaveOk(doc)
               THEN /\ response' = Resp("updateCustomer", 500, c, <<>>)
                    /\ UNCHANGED <<customers, records>>
               ELSE /\ customers' = [customers EXCEPT ![c] = CustomerPreSave(doc)]
                    /\ records' = RecordsAfterScheduleEdit(records, c,
                                       CustomerPreSave(doc).deliverySchedule)
                    /\ response' = Resp("updateCustomer", 200, c, <<>>)
    /\ UNCHANGED <<today, updates, holidays, invoices, invoiceSeq, inflight>>

----------------------------------------------------------------------------
(* Record edit and delete *)

\* Request bodies of PUT /api/records/:id; an absent field is <<>>
RecordBodyInputs ==
    { [deliverySchedule |-> <<>>, totalDailyQuantity |-> <<>>, totalDailyPrice |-> <<500>>],
      [deliverySchedule |-> <<>>, totalDailyQuantity |-> <<>>, totalDailyPrice |-> <<3000>>],
      [deliverySchedule |-> << << [time |-> "morning",
                                   milkItems |-> << MilkItem("cow", "full", 1, 60) >>,
                                   totalQuantity |-> 1, totalPrice |-> 60] >> >>,
       totalDailyQuantity |-> <<1>>, totalDailyPrice |-> <<60>>] }

NoRecord == [customer |-> 0, date |-> 0, deliverySchedule |-> <<>>,
             totalDailyQuantity |-> 0, totalDailyPrice |-> 0]

\* PUT /api/records/:id; `rec` is the document the id resolves to, NoRecord
\* for an id that resolves to nothing
updateRecord(rec, body) ==
    /\ IF ~BagIn(rec, records)
       THEN /\ response' = Resp("updateRecord", 404, 0, <<>>)
            /\ UNCHANGED records
       ELSE LET r1 == IF body.deliverySchedule # <<>>
                      THEN [rec EXCEPT !.deliverySchedule = body.deliverySchedule[1]]
                      ELSE rec
                r2 == IF body.totalDailyQuantity # <<>>
                      THEN [r1 EXCEPT !.totalDailyQuantity = body.totalDailyQuantity[1]]
                      ELSE r1
                r3 == IF body.totalDailyPrice # <<>>
                      THEN [r2 EXCEPT !.totalDailyPrice = body.totalDailyPrice[1]]
                      ELSE r2
            IN IF ~RecordValid(r3)
               THEN /\ response' = Resp("updateRecord", 500, rec.customer, <<>>)
                    /\ UNCHANGED records
               ELSE /\ records' = (records (-) SetToBag({rec})) (+) SetToBag({r3})
                    /\ response' = Resp("updateRecord", 200, rec.customer, <<rec.date>>)
    /\ UNCHANGED <<today, customers, updates, holidays, invoices, invoiceSeq, inflight>>

\* DELETE /api/records/:id
deleteRecord(rec) ==
    /\ IF ~BagIn(rec, records)
       THEN /\ response' = Resp("deleteRecord", 404, 0, <<>>)
            /\ UNCHANGED records
       ELSE /\ records' = records (-) SetToBag({rec})
            /\ response' = Resp("deleteRecord", 200, rec.customer, <<rec.date>>)
    /\ UNCHANGED <<today, customers, updates, holidays, invoices, invoiceSeq, inflight>>

----------------------------------------------------------------------------
(* Quantity adjustment ledger *)

NewQuantityInputs == {3, -1}
ReasonInputs == {"less"}
IsAcceptInputs == {<<>>}
LastUpdatedInputs == {0}
UpdateDateInputs == {Midnight(MaxDayRec) + t : t \in TimesOfDay}
HolidayDateInputs == {Midnight(1)}

\* delivery.milkItems.find(...) of updateCustomerQuantity: position of the
\* line item of slot `time`, 0 when the slot or the item is missing
FindScheduleItem(schedule, time, mt, sc) ==
    LET hits == {<<i, j>> \in (1..Len(schedule)) \X (1..2) :
                    /\ schedule[i].time = time
                    /\ j <= Len(schedule[i].milkItems)
                    /\ schedule[i].milkItems[j].milkType = mt
                    /\ schedule[i].milkItems[j].subcategory = sc}
    IN IF hits = {} THEN <<0, 0>>
       ELSE CHOOSE h \in hits : \A g \in hits : h[1] < g[1] \/ (h[1] = g[1] /\ h[2] <= g[2])

\* QuantityUpdate.findOne({customer, date: new Date(date), time, milkType, subcategory})
FindExistingUpdate(c, date, time, mt, sc) ==
    LET hits == {k \in 1..Len(updates) :
                    /\ updates[k].customer = c
                    /\ updates[k].date = date
                    /\ updates[k].time = time
                    /\ updates[k].milkType = mt
                    /\ updates[k].subcategory = sc}
    IN IF hits = {} THEN 0 ELSE CHOOSE k \in hits : \A m \in hits : k <= m

\* milkItem.quantity = newQuantity and the totals recomputed on the loaded
\* document: the customer as the handler holds it in memory
StagedSchedule(cust, pos, newQuantity) ==
    LET item == cust.deliverySchedule[pos[1]].milkItems[pos[2]]
        item2 == [item EXCEPT !.quantity = newQuantity,
                              !.totalPrice = newQuantity * item.pricePerUnit]
        items2 == [cust.deliverySchedule[pos[1]].milkItems EXCEPT ![pos[2]] = item2]
        slot2 == [cust.deliverySchedule[pos[1]] EXCEPT
                     !.milkItems = items2,
                     !.totalQuantity = SumSeq([j \in 1..Len(items2) |-> items2[j].quantity]),
                     !.totalPrice = SumSeq([j \in 1..Len(items2) |-> items2[j].totalPrice])]
    IN [cust EXCEPT !.deliverySchedule = [@ EXCEPT ![pos[1]] = slot2]]

PersistedAfterAdjust_Saved(cust, staged) == CustomerPreSave(staged)

\* the handler never calls customer.save(): the stored customer is the one
\* that was loaded, the staged document only goes into the response
PersistedAfterAdjust(cust, staged) == cust

\* POST /api/updates/quantity
updateCustomerQuantity(c, date, time, mt, sc, newQuantity, reason, isAccept, maxUpdates) ==
    /\ IF c \notin DOMAIN customers
       THEN /\ response' = Resp("updateCustomerQuantity", 404, c, <<>>)
            /\ UNCHANGED <<updates, customers>>
       ELSE LET pos == FindScheduleItem(customers[c].deliverySchedule, time, mt, sc)
            IN IF pos = <<0, 0>>
               THEN /\ response' = Resp("updateCustomerQuantity", 404, c, <<>>)
                    /\ UNCHANGED <<updates, customers>>
               ELSE LET originalQuantity ==
                            customers[c].deliverySchedule[pos[1]].milkItems[pos[2]].quantity
                        difference == newQuantity - originalQuantity
                        staged == StagedSchedule(customers[c], pos, newQuantity)
                        k == FindExistingUpdate(c, date, time, mt, sc)
                    IN /\ customers' = [customers EXCEPT
                                           ![c] = PersistedAfterAdjust(customers[c], staged)]
                       /\ IF k # 0
                          THEN updates' = [updates EXCEPT ![k] =
                                   [@ EXCEPT !.oldQuantity = originalQuantity,
                                             !.newQuantity = newQuantity,
                                             !.difference = difference,
                                             !.reason = reason,
                                             !.status = "pending",
                                             !.isAccept = FALSE]]
                          ELSE /\ Len(updates) < maxUpdates
                               /\ updates' = Append(updates,
                                   [customer |-> c, date |-> date, time |-> time,
                                    milkType |-> mt, subcategory |-> sc,
                                    oldQuantity |-> originalQuantity,
                                    newQuantity |-> newQuantity,
                                    difference |-> difference,
                                    reason |-> reason,
                                    isAccept |-> IF isAccept = <<>> THEN FALSE ELSE isAccept[1],
                                    status |-> "pending",
                                    lastQuantity |-> 0])
                       /\ response' = Resp("updateCustomerQuantity", 200, c, <<>>)
    /\ UNCHANGED <<today, records, holidays, invoices, invoiceSeq, inflight>>

\* PATCH /api/updates/quantity/accept
acceptQuantityUpdate(k, lastUpdated) ==
    /\ IF k \notin 1..Len(updates)
       THEN /\ response' = Resp("acceptQuantityUpdate", 404, 0, <<>>)
            /\ UNCHANGED updates
       ELSE /\ updates' = [updates EXCEPT ![k] =
                              [@ EXCEPT !.isAccept = TRUE, !.status = "accepted",
                                        !.lastQuantity = lastUpdated]]
            /\ response' = Resp("acceptQuantityUpdate", 200, updates[k].customer, <<>>)
    /\ UNCHANGED <<today, customers, records, holidays, invoices, invoiceSeq, inflight>>

\* PATCH /api/updates/quantity/:id/reject
rejectQuantityUpdate(k, reason) ==
    /\ IF k \notin 1..Len(updates)
       THEN /\ response' = Resp("rejectQuantityUpdate", 404, 0, <<>>)
            /\ UNCHANGED updates
       ELSE /\ updates' = [updates EXCEPT ![k] =
                              [@ EXCEPT !.isAccept = FALSE,
                                        !.reason = IF reason = <<>> THEN "No reason provided"
                                                   ELSE reason[1],
                                        !.status = "rejected"]]
            /\ response' = Resp("rejectQuantityUpdate", 200, updates[k].customer, <<>>)
    /\ UNCHANGED <<today, customers, records, holidays, invoices, invoiceSeq, inflight>>

\* DELETE /api/updates/quantity/:id
deleteQuantityUpdate(k) ==
    /\ IF k \notin 1..Len(updates)
       THEN /\ response' = Resp("deleteQuantityUpdate", 404, 0, <<>>)
            /\ UNCHANGED updates
       ELSE /\ updates' = RemoveAt(updates, k)
            /\ response' = Resp("deleteQuantityUpdate", 200, updates[k].customer, <<>>)
    /\ UNCHANGED <<today, customers, records, holidays, invoices, invoiceSeq, inflight>>

----------------------------------------------------------------------------
(* Invoice model *)

StatusValues == {"pending", "partially_paid", "paid", "overdue"}

NoTx == [year |-> 0, customerNo |-> 0, seq |-> 0]

\* (variant for C2: a save without the hook)
PreSave_NoHook(inv, now) == inv

\* invoiceSchema.pre('save'): due amount and status are derived on every save
PreSave(inv, now) ==
    LET due == inv.totalAmount - inv.amountPaid
    IN [inv EXCEPT
          !.dueAmount = due,
          !.status = IF due <= 0 THEN "paid"
                     ELSE IF inv.amountPaid > 0 THEN "partially_paid"
                     ELSE IF Midnight(inv.dueDate) < now THEN "overdue"
                     ELSE "pending"]

\* (variant for C5: generation without the overlap check)
FindOverlapping_None(invs, c, startDate, endDate) == 0

\* Invoice.findOne({customer, startDate: {$lte: endDate}, endDate: {$gte: startDate}}):
\* position of the first invoice of the customer whose period intersects
FindOverlapping(invs, c, startDate, endDate) ==
    LET hits == {k \in 1..Len(invs) :
                    /\ invs[k].customer = c
                    /\ invs[k].startDate <= endDate
                    /\ invs[k].endDate >= startDate}
    IN IF hits = {} THEN 0 ELSE CHOOSE k \in hits : \A m \in hits : k <= m

\* Invoice.findById: position of the invoice with that _id, 0 if none
FindInvoice(invs, id) ==
    LET hits == {k \in 1..Len(invs) : invs[k]._id = id}
    IN IF hits = {} THEN 0 ELSE CHOOSE k \in hits : TRUE

\* .sort({date: 1}) of the records query
RECURSIVE SortByDate(_)
SortByDate(S) ==
    IF S = {} THEN <<>>
    ELSE LET r == CHOOSE x \in S : \A y \in S : x.date <= y.date
         IN <<r>> \o SortByDate(S \ {r})

\* single customer: Record.find({customer, date: {$gte: startDate, $lt: first day of next month}})
RecordsOfMonthSingle(c, startDate, nextMonthStart) ==
    SortByDate({r \in BagToSet(records) :
                  r.customer = c /\ r.date >= startDate /\ r.date < nextMonthStart})

\* batch: Record.find({customer, date: {$gte: startDate, $lte: endDate}})
RecordsOfMonthBatch(c, startDate, endDate) ==
    SortByDate({r \in BagToSet(records) :
                  r.customer = c /\ r.date >= startDate /\ r.date <= endDate})

\* records.forEach: the invoice items and the two totals
InvoiceItems(recs) ==
    [i \in 1..Len(recs) |->
        [date |-> recs[i].date, deliverySchedule |-> recs[i].deliverySchedule,
         totalDailyQuantity |-> recs[i].totalDailyQuantity,
         totalDailyPrice |-> recs[i].totalDailyPrice]]
TotalQuantity(recs) == SumSeq([i \in 1..Len(recs) |-> recs[i].totalDailyQuantity])
TotalAmount(recs) == SumSeq([i \in 1..Len(recs) |-> recs[i].totalDailyPrice])

\* generateInvoiceNumber: INV-YY-MM-XXXX, the counter follows the counter of
\* the most recently created invoice
generateInvoiceNumber(invs) ==
    [yy |-> YearOf(today) % 100, mm |-> MonthOfYear(today),
     counter |-> IF invs = <<>> THEN 1 ELSE invs[Len(invs)].invoiceNumber.counter + 1]

AdvancePayment(amount) ==
    [amount |-> amount, paymentMethod |-> "advance", transactionId |-> NoTx]

\* (variant for C3: the whole credit is spent on the invoice)
ApplyAdvance_SpendAll(advance, totalAmount) ==
    IF advance > 0
    THEN [dueAmount |-> IF advance >= totalAmount THEN 0 ELSE totalAmount - advance,
          amountPaid |-> Min(advance, totalAmount), advanceUsed |-> advance,
          payments |-> <<AdvancePayment(Min(advance, totalAmount))>>,
          advance |-> 0, saved |-> TRUE]
    ELSE [dueAmount |-> totalAmount, amountPaid |-> 0, advanceUsed |-> 0,
          payments |-> <<>>, advance |-> advance, saved |-> FALSE]

\* "Apply customer advance to new invoice"
ApplyAdvance(advance, totalAmount) ==
    IF advance > 0
    THEN IF advance >= totalAmount
         THEN [dueAmount |-> 0, amountPaid |-> totalAmount, advanceUsed |-> totalAmount,
               payments |-> <<AdvancePayment(totalAmount)>>,
               advance |-> advance - totalAmount, saved |-> TRUE]
         ELSE [dueAmount |-> totalAmount - advance, amountPaid |-> advance,
               advanceUsed |-> advance,
               payments |-> <<AdvancePayment(advance)>>,
               advance |-> 0, saved |-> TRUE]
    ELSE [dueAmount |-> totalAmount, amountPaid |-> 0, advanceUsed |-> 0,
          payments |-> <<>>, advance |-> advance, saved |-> FALSE]

\* let status = 'pending'; if (amountPaid >= totalAmount) ... else if (amountPaid > 0) ...
InitialStatus(amountPaid, totalAmount) ==
    IF amountPaid >= totalAmount THEN "paid"
    ELSE IF amountPaid > 0 THEN "partially_paid"
    ELSE "pending"

\* Invoice.create: the unique index on invoiceNumber
InvoiceCreateOk(invs, doc) ==
    \A k \in 1..Len(invs) : invs[k].invoiceNumber # doc.invoiceNumber

\* (variant for C13: the existing invoice is saved as it was loaded)
UpdateInPlace_Stale(inv, recs, endDate) == inv

\* "Update existing invoice": the assignments before existingInvoice.save()
UpdateInPlace(inv, recs, endDate) ==
    [inv EXCEPT !.totalQuantity = TotalQuantity(recs),
                !.totalAmount = TotalAmount(recs),
                !.items = InvoiceItems(recs),
                !.dueAmount = TotalAmount(recs) - inv.amountPaid,
                !.endDate = endDate]

\* (variant for C12: an existing invoice never refuses the request)
RefuseExisting_Never(k, updateExisting) == FALSE

\* if (existingInvoice && !updateExisting)
RefuseExisting(k, updateExisting) == k # 0 /\ ~updateExisting

\* The per-customer body shared by generateCustomerMonthlyInvoice and the loop
\* of generateBatchMonthlyInvoices, after the records were loaded: update the
\* overlapping invoice in place, or create a new one and apply the advance.
\* Result: the outcome, the invoice collection, the customer's advance as
\* persisted afterwards and the _id of the invoice concerned.
GenerateFor(c, advance, invs, nextId, recs, startDate, endDate, updateExisting, now) ==
    LET k == FindOverlapping(invs, c, startDate, endDate)
    IN IF RefuseExisting(k, updateExisting)
       THEN [outcome |-> "exists", invoices |-> invs, advance |-> advance,
             id |-> invs[k]._id, nextId |-> nextId]
       ELSE IF recs = <<>>
       THEN [outcome |-> "norecords", invoices |-> invs, advance |-> advance,
             id |-> 0, nextId |-> nextId]
       ELSE IF k # 0
       THEN LET upd == UpdateInPlace(invs[k], recs, endDate)
            IN [outcome |-> "updated",
                invoices |-> [invs EXCEPT ![k] = PreSave(upd, now)],
                advance |-> advance, id |-> invs[k]._id, nextId |-> nextId]
       ELSE LET a == ApplyAdvance(advance, TotalAmount(recs))
                doc == [_id |-> nextId, customer |-> c,
                        invoiceNumber |-> generateInvoiceNumber(invs),
                        startDate |-> startDate, endDate |-> endDate,
                        totalQuantity |-> TotalQuantity(recs),
                        totalAmount |-> TotalAmount(recs),
                        dueAmount |-> a.dueAmount, amountPaid |-> a.amountPaid,
                        payments |-> a.payments,
                        status |-> InitialStatus(a.amountPaid, TotalAmount(recs)),
                        dueDate |-> endDate + GraceDays,
                        items |-> InvoiceItems(recs)]
            IN IF ~InvoiceCreateOk(invs, doc)
               THEN [outcome |-> "error", invoices |-> invs, advance |-> a.advance,
                     id |-> 0, nextId |-> nextId]
               ELSE [outcome |-> "created",
                     invoices |-> Append(invs, PreSave(PreSave(doc, now), now)),
                     advance |-> a.advance, id |-> nextId, nextId |-> nextId + 1]

\* sum of the synthetic advance payments of an invoice
AdvanceApplied(inv) ==
    SumSeq([i \in 1..Len(inv.payments) |->
              IF inv.payments[i].paymentMethod = "advance"
              THEN inv.payments[i].amount ELSE 0])

\* POST /api/invoices/generate/customer/:id
generateCustomerMonthlyInvoice(c, month, year, updateExisting, maxInvoices) ==
    \E tod \in TimesOfDay :
    /\ IF month = 0 \/ year = 0
       THEN /\ response' = Resp("generateCustomer", 400, c, <<"required">>)
            /\ UNCHANGED <<customers, invoices, invoiceSeq>>
       ELSE IF month < 1 \/ month > MonthsPerYear
       THEN /\ response' = Resp("generateCustomer", 400, c, <<"month">>)
            /\ UNCHANGED <<customers, invoices, invoiceSeq>>
       ELSE IF c \notin DOMAIN customers
       THEN /\ response' = Resp("generateCustomer", 404, c, <<"customer">>)
            /\ UNCHANGED <<customers, invoices, invoiceSeq>>
       ELSE LET startDate == FirstDayOfMonth(year, month)
                endDate == LastDayOfMonth(year, month)
                recs == RecordsOfMonthSingle(c, startDate, endDate + 1)
                g == GenerateFor(c, customers[c].advance, invoices, invoiceSeq + 1, recs,
                                 startDate, endDate, updateExisting,
                                 Midnight(today) + tod)
            IN /\ g.nextId <= maxInvoices + 1
               /\ invoices' = g.invoices
               /\ invoiceSeq' = g.nextId - 1
               /\ customers' = [customers EXCEPT ![c].advance = g.advance]
               /\ response' =
                    CASE g.outcome = "exists" ->
                           Resp("generateCustomer", 400, c,
                                <<g.id, invoices[FindInvoice(invoices, g.id)].invoiceNumber>>)
                      [] g.outcome = "norecords" -> Resp("generateCustomer", 404, c, <<"records">>)
                      [] g.outcome = "updated" -> Resp("generateCustomer", 200, c, <<g.id>>)
                      [] g.outcome = "created" -> Resp("generateCustomer", 201, c, <<g.id>>)
                      [] OTHER -> Resp("generateCustomer", 500, c, <<>>)
    /\ UNCHANGED <<today, records, updates, holidays, inflight>>

\* (variant for C25: batch generation without the guard)
CurrentMonthGuard_Off(month, year) == FALSE

\* isCurrentMonth && currentDay < lastDayOfMonth - 2
CurrentMonthGuard(month, year) ==
    /\ month = MonthOfYear(today) /\ year = YearOf(today)
    /\ DayOfMonth(today) < DayOfMonth(LastDayOfMonth(year, month)) - 2

\* (variant for C20: a failed customer ends the loop)
ContinueAfter_Abort(outcome, rest) ==
    IF outcome \in {"exists", "norecords", "error"} THEN <<>> ELSE rest

\* `continue` after a failure pushed to results.failed, and the catch inside
\* the loop body: the loop goes on with the remaining customers
ContinueAfter(outcome, rest) == rest

\* The for-loop of generateBatchMonthlyInvoices over the customers `cs`
RECURSIVE BatchLoop(_, _, _, _, _, _, _, _, _)
BatchLoop(cs, custs, invs, nextId, startDate, endDate, updateExisting, now, acc) ==
    IF cs = <<>>
    THEN [customers |-> custs, invoices |-> invs, nextId |-> nextId, results |-> acc]
    ELSE LET c == Head(cs)
             recs == RecordsOfMonthBatch(c, startDate, endDate)
             g == GenerateFor(c, custs[c].advance, invs, nextId, recs, startDate, endDate,
                              updateExisting, now)
         IN BatchLoop(ContinueAfter(g.outcome, Tail(cs)),
                      [custs EXCEPT ![c].advance = g.advance], g.invoices,
                      g.nextId, startDate, endDate, updateExisting, now,
                      [created |-> IF g.outcome = "created"
                                   THEN Append(acc.created, c) ELSE acc.created,
                       updated |-> IF g.outcome = "updated"
                                   THEN Append(acc.updated, c) ELSE acc.updated,
                       failed |-> IF g.outcome \in {"exists", "norecords", "error"}
                                  THEN Append(acc.failed, c) ELSE acc.failed])

\* POST /api/invoices/generate/batch
generateBatchMonthlyInvoices(month, year, updateExisting, maxInvoices) ==
    \E tod \in TimesOfDay :
    /\ IF month = 0 \/ year = 0
       THEN /\ response' = Resp("generateBatch", 400, 0, <<"required">>)
            /\ UNCHANGED <<customers, invoices, invoiceSeq>>
       ELSE IF CurrentMonthGuard(month, year)
       THEN /\ response' = Resp("generateBatch", 400, 0, <<"current">>)
            /\ UNCHANGED <<customers, invoices, invoiceSeq>>
       ELSE IF month < 1 \/ month > MonthsPerYear
       THEN /\ response' = Resp("generateBatch", 400, 0, <<"month">>)
            /\ UNCHANGED <<customers, invoices, invoiceSeq>>
       ELSE LET b == BatchLoop(SeqOfSet(ActiveCustomers), customers, invoices,
                               invoiceSeq + 1,
                               FirstDayOfMonth(year, month), LastDayOfMonth(year, month),
                               updateExisting, Midnight(today) + tod,
                               [created |-> <<>>, updated |-> <<>>, failed |-> <<>>])
            IN /\ b.nextId <= maxInvoices + 1
               /\ invoices' = b.invoices
               /\ invoiceSeq' = b.nextId - 1
               /\ customers' = b.customers
               /\ response' = Resp("generateBatch", 200, 0,
                                   <<b.results.created, b.results.updated, b.results.failed,
                                     Len(SeqOfSet(ActiveCustomers))>>)
    /\ UNCHANGED <<today, records, updates, holidays, inflight>>

\* Single-customer generation as the requests that run it; the awaits
\* between the steps are points where another request can run

GenRequests == {i \in 1..Len(inflight) : inflight[i].op = "generateCustomer"}

NoApply ==
    [dueAmount |-> 0, amountPaid |-> 0, advanceUsed |-> 0, payments |-> <<>>,
     advance |-> 0, saved |-> FALSE]

\* Customer.findById, the overlap check and Record.find of the handler; a
\* request that ends here (or takes the update branch) is handled whole
genCheck(c, month, year, updateExisting, maxRequests) ==
    /\ Len(inflight) < maxRequests
    /\ c \in DOMAIN customers
    /\ month \in 1..MonthsPerYear
    /\ LET startDate == FirstDayOfMonth(year, month)
           endDate == LastDayOfMonth(year, month)
           recs == RecordsOfMonthSingle(c, startDate, endDate + 1)
           k == FindOverlapping(invoices, c, startDate, endDate)
           req == [op |-> "generateCustomer", pc |-> "number", c |-> c,
                   advance |-> customers[c].advance, startDate |-> startDate,
                   endDate |-> endDate, recs |-> recs, number |-> <<>>,
                   apply |-> NoApply, status |-> 0]
       IN IF RefuseExisting(k, updateExisting)
          THEN /\ inflight' = Append(inflight, [req EXCEPT !.pc = "done", !.status = 400])
               /\ response' = Resp("generateCustomer", 400, c,
                                   <<invoices[k]._id, invoices[k].invoiceNumber>>)
          ELSE IF recs = <<>>
          THEN /\ inflight' = Append(inflight, [req EXCEPT !.pc = "done", !.status = 404])
               /\ response' = Resp("generateCustomer", 404, c, <<"records">>)
          ELSE /\ k = 0
               /\ inflight' = Append(inflight, req)
               /\ response' = response
    /\ UNCHANGED <<today, customers, records, updates, holidays, invoices, invoiceSeq>>

\* const invoiceNumber = await generateInvoiceNumber()
genNumber(i) ==
    /\ i \in GenRequests
    /\ inflight[i].pc = "number"
    /\ inflight' = [inflight EXCEPT ![i] =
          [@ EXCEPT !.pc = "credit", !.number = <<generateInvoiceNumber(invoices)>>]]
    /\ UNCHANGED <<today, customers, records, updates, holidays, invoices, invoiceSeq,
                   response>>

\* the credit of the customer document loaded at the start is applied and
\* the document is saved
genCredit(i) ==
    /\ i \in GenRequests
    /\ inflight[i].pc = "credit"
    /\ LET req == inflight[i]
           a == ApplyAdvance(req.advance, TotalAmount(req.recs))
       IN /\ inflight' = [inflight EXCEPT ![i] = [req EXCEPT !.pc = "create", !.apply = a]]
          /\ customers' = IF a.saved
                          THEN [customers EXCEPT ![req.c].advance = a.advance]
                          ELSE customers
    /\ UNCHANGED <<today, records, updates, holidays, invoices, invoiceSeq, response>>

\* Invoice.create and invoice.save(); a rejected create throws into the
\* handler's catch
genCreate(i, maxInvoices) ==
    \E tod \in TimesOfDay :
    /\ i \in GenRequests
    /\ inflight[i].pc = "create"
    /\ LET req == inflight[i]
           a == req.apply
           now == Midnight(today) + tod
           doc == [_id |-> invoiceSeq + 1, customer |-> req.c,
                   invoiceNumber |-> req.number[1],
                   startDate |-> req.startDate, endDate |-> req.endDate,
                   totalQuantity |-> TotalQuantity(req.recs),
                   totalAmount |-> TotalAmount(req.recs),
                   dueAmount |-> a.dueAmount, amountPaid |-> a.amountPaid,
                   payments |-> a.payments,
                   status |-> InitialStatus(a.amountPaid, TotalAmount(req.recs)),
                   dueDate |-> req.endDate + GraceDays,
                   items |-> InvoiceItems(req.recs)]
       IN IF InvoiceCreateOk(invoices, doc)
          THEN /\ invoiceSeq < maxInvoices
               /\ invoices' = Append(invoices, PreSave(PreSave(doc, now), now))
               /\ invoiceSeq' = invoiceSeq + 1
               /\ inflight' = [inflight EXCEPT ![i] = [req EXCEPT !.pc = "done",
                                                                  !.status = 201]]
               /\ response' = Resp("generateCustomer", 201, req.c, <<invoiceSeq + 1>>)
          ELSE /\ UNCHANGED <<invoices, invoiceSeq>>
               /\ inflight' = [inflight EXCEPT ![i] = [req EXCEPT !.pc = "done",
                                                                  !.status = 500]]
               /\ response' = Resp("generateCustomer", 500, req.c, <<>>)
    /\ UNCHANGED <<today, customers, records, updates, holidays>>

\* (variant for C24: the sequence always starts over)
NextTransactionSeq_First(invs, c, year, customerNo) == 1

\* the transaction ids of the form {year}_{customerNo}_{n} in the payment
\* histories of all invoices of the customer; then maxSequence + 1
NextTransactionSeq(invs, c, year, customerNo) ==
    LET seqs == {p.transactionId.seq :
                   p \in {q \in UNION {Range(invs[k].payments) :
                                         k \in {m \in 1..Len(invs) : invs[m].customer = c}} :
                            /\ q.transactionId.year = year
                            /\ q.transactionId.customerNo = customerNo}}
    IN 1 + (IF seqs = {} THEN 0 ELSE CHOOSE n \in seqs : \A m \in seqs : m <= n)

\* (variant for C6: no overage is computed)
OverpaidAmount_None(amount, dueAmount) == 0

\* if (amount > invoice.dueAmount) overpaidAmount = amount - invoice.dueAmount
OverpaidAmount(amount, dueAmount) ==
    IF amount > dueAmount THEN amount - dueAmount ELSE 0

\* (variant for C4: the whole amount is applied to the invoice)
PaymentToApply_Whole(amount, dueAmount) == amount

\* const paymentToApply = Math.min(amount, invoice.dueAmount)
PaymentToApply(amount, dueAmount) == Min(amount, dueAmount)

\* invoiceSchema.methods.addPayment
addPayment(inv, payment, now) ==
    PreSave([inv EXCEPT !.payments = Append(@, payment),
                        !.amountPaid = @ + payment.amount], now)

\* POST /api/invoices/:id/payment
addPaymentToInvoice(id, amount, paymentMethod, transactionId, maxPayments) ==
    \E tod \in TimesOfDay :
    /\ IF amount <= 0
       THEN /\ response' = Resp("addPayment", 400, 0, <<id, amount>>)
            /\ UNCHANGED <<customers, invoices>>
       ELSE IF FindInvoice(invoices, id) = 0
       THEN /\ response' = Resp("addPayment", 404, 0, <<id, amount>>)
            /\ UNCHANGED <<customers, invoices>>
       ELSE LET k == FindInvoice(invoices, id)
                inv == invoices[k]
                c == inv.customer
                finalTransactionId ==
                    IF transactionId = NoTx /\ paymentMethod # "cash"
                    THEN [year |-> YearOf(today), customerNo |-> customers[c].customerNo,
                          seq |-> NextTransactionSeq(invoices, c, YearOf(today),
                                                     customers[c].customerNo)]
                    ELSE transactionId
                overpaidAmount == OverpaidAmount(amount, inv.dueAmount)
                paymentToApply == PaymentToApply(amount, inv.dueAmount)
                payment == [amount |-> paymentToApply,
                            paymentMethod |-> IF paymentMethod = "" THEN "cash"
                                              ELSE paymentMethod,
                            transactionId |-> finalTransactionId]
            IN /\ Len(inv.payments) < maxPayments
               /\ invoices' = [invoices EXCEPT ![k] =
                                  addPayment(inv, payment, Midnight(today) + tod)]
               /\ customers' = IF overpaidAmount > 0
                               THEN [customers EXCEPT ![c].advance = @ + overpaidAmount]
                               ELSE customers
               /\ response' = Resp("addPayment", 200, c, <<id, amount>>)
    /\ UNCHANGED <<today, records, updates, holidays, invoiceSeq, inflight>>

\* Add-payment as the requests that run it; each await of the handler is a
\* step

PayRequests == {i \in 1..Len(inflight) : inflight[i].op = "addPayment"}

\* What save() writes of a document loaded as `loaded` and changed locally to
\* `local`: the pushed payment is appended to the stored array, the other
\* paths are set only where the local document differs from the loaded one
SaveModified(stored, loaded, local, payment) ==
    [stored EXCEPT
        !.payments = Append(@, payment),
        !.amountPaid = IF local.amountPaid # loaded.amountPaid THEN local.amountPaid ELSE @,
        !.dueAmount = IF local.dueAmount # loaded.dueAmount THEN local.dueAmount ELSE @,
        !.status = IF local.status # loaded.status THEN local.status ELSE @]

\* validation and Invoice.findById; a cash payment gets no generated id
payLoad(id, amount, maxRequests) ==
    /\ Len(inflight) < maxRequests
    /\ amount > 0
    /\ FindInvoice(invoices, id) # 0
    /\ LET inv == invoices[FindInvoice(invoices, id)]
       IN inflight' = Append(inflight,
              [op |-> "addPayment", pc |-> "save", id |-> id, amount |-> amount,
               c |-> inv.customer, doc |-> inv,
               overpaid |-> OverpaidAmount(amount, inv.dueAmount),
               advance |-> 0, status |-> 0])
    /\ UNCHANGED <<today, customers, records, updates, holidays, invoices, invoiceSeq,
                   response>>

\* await invoice.addPayment(payment) on the document the request loaded
paySave(i, maxPayments) ==
    \E tod \in TimesOfDay :
    /\ i \in PayRequests
    /\ inflight[i].pc = "save"
    /\ LET req == inflight[i]
           k == FindInvoice(invoices, req.id)
           payment == [amount |-> PaymentToApply(req.amount, req.doc.dueAmount),
                       paymentMethod |-> "cash", transactionId |-> NoTx]
           local == addPayment(req.doc, payment, Midnight(today) + tod)
       IN /\ k # 0
          /\ Len(invoices[k].payments) < maxPayments
          /\ invoices' = [invoices EXCEPT ![k] = SaveModified(@, req.doc, local, payment)]
          /\ IF req.overpaid > 0
             THEN /\ inflight' = [inflight EXCEPT ![i].pc = "customer"]
                  /\ response' = response
             ELSE /\ inflight' = [inflight EXCEPT ![i] = [req EXCEPT !.pc = "done",
                                                                     !.status = 200]]
                  /\ response' = Resp("addPayment", 200, req.c, <<req.id, req.amount>>)
    /\ UNCHANGED <<today, customers, records, updates, holidays, invoiceSeq>>

\* const customer = await Customer.findById(invoice.customer._id)
payCustomer(i) ==
    /\ i \in PayRequests
    /\ inflight[i].pc = "customer"
    /\ inflight' = [inflight EXCEPT ![i] =
          [@ EXCEPT !.pc = "credit", !.advance = customers[inflight[i].c].advance]]
    /\ UNCHANGED <<today, customers, records, updates, holidays, invoices, invoiceSeq,
                   response>>

\* customer.advance = (customer.advance || 0) + overpaidAmount; await customer.save()
payCredit(i) ==
    /\ i \in PayRequests
    /\ inflight[i].pc = "credit"
    /\ LET req == inflight[i]
       IN /\ customers' = [customers EXCEPT ![req.c].advance = req.advance + req.overpaid]
          /\ inflight' = [inflight EXCEPT ![i] = [req EXCEPT !.pc = "done", !.status = 200]]
          /\ response' = Resp("addPayment", 200, req.c, <<req.id, req.amount>>)
    /\ UNCHANGED <<today, records, updates, holidays, invoices, invoiceSeq>>

\* PUT /api/invoices/:id/status
updateInvoiceStatus(id, status) ==
    \E tod \in TimesOfDay :
    /\ IF status \notin StatusValues
       THEN /\ response' = Resp("updateInvoiceStatus", 400, 0, <<id>>)
            /\ UNCHANGED invoices
       ELSE IF FindInvoice(invoices, id) = 0
       THEN /\ response' = Resp("updateInvoiceStatus", 404, 0, <<id>>)
            /\ UNCHANGED invoices
       ELSE LET k == FindInvoice(invoices, id)
            IN /\ invoices' = [invoices EXCEPT ![k] =
                                  PreSave([invoices[k] EXCEPT !.status = status],
                                          Midnight(today) + tod)]
               /\ response' = Resp("updateInvoiceStatus", 200, invoices[k].customer, <<id>>)
    /\ UNCHANGED <<today, customers, records, updates, holidays, invoiceSeq, inflight>>

\* (variant for C14: the payments of an invoice are not looked at)
HasPayments_Never(inv) == FALSE

\* if (invoice.payments.length > 0)
HasPayments(inv) == Len(inv.payments) > 0

\* DELETE /api/invoices/:id
deleteInvoice(id) ==
    /\ IF FindInvoice(invoices, id) = 0
       THEN /\ response' = Resp("deleteInvoice", 404, 0, <<id>>)
            /\ UNCHANGED invoices
       ELSE LET k == FindInvoice(invoices, id)
            IN IF HasPayments(invoices[k])
               THEN /\ response' = Resp("deleteInvoice", 400, invoices[k].customer, <<id>>)
                    /\ UNCHANGED invoices
               ELSE /\ invoices' = RemoveAt(invoices, k)
                    /\ response' = Resp("deleteInvoice", 200, invoices[k].customer, <<id>>)
    /\ UNCHANGED <<today, customers, records, updates, holidays, invoiceSeq, inflight>>

----------------------------------------------------------------------------
(* Credit / advance ledger *)

\* POST /api/customers/advancepayment; findById(null customer) makes the
\* handler throw, tryCatch answers 500
createAdvancePayment(c, amount) ==
    /\ IF c \notin DOMAIN customers
       THEN /\ response' = Resp("createAdvancePayment", 500, c, <<amount>>)
            /\ UNCHANGED customers
       ELSE /\ customers[c].advance + amount <= MaxAdvance
            /\ customers[c].advance + amount >= -MaxOverdraw
            /\ customers' = [customers EXCEPT ![c].advance = @ + amount]
            /\ response' = Resp("createAdvancePayment", 200, c, <<amount>>)
    /\ UNCHANGED <<today, records, updates, holidays, invoices, invoiceSeq, inflight>>

\* JSON values of a request body field
JNum(n) == [type |-> "number", n |-> n, s |-> ""]
JStr(str) == [type |-> "string", n |-> 0, s |-> str]
JNull == [type |-> "null", n |-> 0, s |-> ""]
JMissing == [type |-> "undefined", n |-> 0, s |-> ""]

\* Number(amount): <<n>>, or <<>> for NaN.  A number is itself, null and the
\* empty string are 0, undefined and a string that is no numeral are NaN
\* (the strings used here are "" and "abc")
NumberOf(v) ==
    CASE v.type = "number" -> <<v.n>>
      [] v.type = "null" -> <<0>>
      [] v.type = "string" /\ v.s = "" -> <<0>>
      [] OTHER -> <<>>

\* PUT /api/customers/:id/advance
updateAdvanceAmount(c, amount) ==
    /\ LET numericAmount == NumberOf(amount)
       IN IF numericAmount = <<>> \/ numericAmount[1] < 0
          THEN /\ response' = Resp("updateAdvanceAmount", 400, c, <<>>)
               /\ UNCHANGED customers
          ELSE IF c \notin DOMAIN customers
          THEN /\ response' = Resp("updateAdvanceAmount", 404, c, <<>>)
               /\ UNCHANGED customers
          ELSE /\ customers' = [customers EXCEPT ![c].advance = numericAmount[1]]
               /\ response' = Resp("updateAdvanceAmount", 200, c, numericAmount)
    /\ UNCHANGED <<today, records, updates, holidays, invoices, invoiceSeq, inflight>>

\* PUT /api/customers/:id/advance/clear
clearAdvanceAmount(c) ==
    /\ IF c \notin DOMAIN customers
       THEN /\ response' = Resp("clearAdvanceAmount", 404, c, <<>>)
            /\ UNCHANGED customers
       ELSE /\ customers' = [customers EXCEPT ![c].advance = 0]
            /\ response' = Resp("clearAdvanceAmount", 200, c, <<>>)
    /\ UNCHANGED <<today, records, updates, holidays, invoices, invoiceSeq, inflight>>

----------------------------------------------------------------------------
(* Holidays and the clock *)

\* POST /api/holidays
createHoliday(date, isRecurringYearly) ==
    /\ Len(holidays) < MaxHolidays
    /\ holidays' = Append(holidays, [date |-> date, isRecurringYearly |-> isRecurringYearly])
    /\ response' = Resp("createHoliday", 201, 0, <<>>)
    /\ UNCHANGED <<today, customers, records, updates, invoices, invoiceSeq, inflight>>

\* Midnight passes
NextDay(maxDay) ==
    /\ today < maxDay
    /\ today' = today + 1
    /\ response' = NoResponse
    /\ UNCHANGED <<customers, records, updates, holidays, invoices, invoiceSeq, inflight>>

----------------------------------------------------------------------------
(* The record side of the system: customers, adjustments, holidays, the     *)
(* daily batch, backfill, record edit and delete                            *)

Init ==
    /\ today = 1
    /\ customers = <<>>
    /\ records = EmptyBag
    /\ updates = <<>>
    /\ holidays = <<>>
    /\ invoices = <<>>
    /\ invoiceSeq = 0
    /\ response = NoResponse
    /\ inflight = <<>>

RecNext ==
    \/ NextDay(MaxDayRec)
    \/ createDailyRecords
    \/ \E s \in {ScheduleA, ScheduleB}, j \in {<<>>, <<FormatJoined(1)>>} :
          createCustomer(s, j, MaxCustomers, MaxRecords)
    \/ \E c \in DOMAIN customers, d \in UpdateDateInputs, q \in NewQuantityInputs :
          updateCustomerQuantity(c, d, "morning", "cow", "full", q, "less", <<>>, MaxUpdates)
    \/ \E k \in 1..Len(updates), l \in LastUpdatedInputs : acceptQuantityUpdate(k, l)
    \/ \E k \in 1..Len(updates) : rejectQuantityUpdate(k, <<"less">>)
    \/ \E k \in 1..Len(updates) : deleteQuantityUpdate(k)
    \/ \E c \in DOMAIN customers : updateCustomer(c, <<FALSE>>, <<>>)
    \/ \E d \in HolidayDateInputs : createHoliday(d, FALSE)

RecSpec == Init /\ [][RecNext]_vars

(* The generator alone: customers join (with backfill), adjustments are     *)
(* requested, holidays are declared, the daily batch runs                   *)

GenNext ==
    \/ NextDay(MaxDayRec)
    \/ createDailyRecords
    \/ \E j \in {<<>>, <<FormatJoined(1)>>} : createCustomer(ScheduleA, j, MaxCustomers, MaxRecords)
    \/ \E c \in DOMAIN customers, q \in NewQuantityInputs :
          updateCustomerQuantity(c, Midnight(MaxDayRec), "morning", "cow", "full", q,
                                 "less", <<>>, MaxUpdates)
    \/ \E d \in HolidayDateInputs : createHoliday(d, FALSE)

GenSpec == Init /\ [][GenNext]_vars

(* Record edits on top of the generator *)

EditNext ==
    \/ NextDay(MaxDayRec)
    \/ createDailyRecords
    \/ \E s \in ScheduleInputs, j \in JoinedInputs : createCustomer(s, j, MaxCustomers, MaxRecords)
    \/ \E r \in BagToSet(records), b \in RecordBodyInputs : updateRecord(r, b)
    \/ \E r \in BagToSet(records) : deleteRecord(r)

EditSpec == Init /\ [][EditNext]_vars

(* The billing side: customers join with a backfilled delivery history,     *)
(* are invoiced by month and pay; the clock is observed on the days InvDays *)

\* daily price 3000; the backfill starts on the last day of the first month,
\* so each of the first two months gets one delivery
ScheduleBig == << RawSlot("morning", << RawItem("cow", "full", 50, 60) >>) >>
JoinedInv == FormatJoined(DaysPerMonth)

InvDays == {DaysPerMonth + GraceDays}

\* Time passes until one of the observed days
PassTime(days) ==
    /\ \E d \in days : d > today /\ today' = d
    /\ response' = NoResponse
    /\ UNCHANGED <<customers, records, updates, holidays, invoices, invoiceSeq, inflight>>

MonthInputs == {1, 2}
RecordPriceInputs ==
    { [deliverySchedule |-> <<>>, totalDailyQuantity |-> <<>>, totalDailyPrice |-> <<500>>] }
PaymentInputs == {700}
AdvanceAddInputs == {3500, -3600}
AdvanceSetInputs == {JNum(2500)}

(* Holidays: the daily batch and backfill around exact and yearly holidays   *)

\* the first two days of the year, and the second day of the next year
HolidayDates ==
    {Midnight(1), Midnight(2), Midnight(MonthsPerYear * DaysPerMonth + 2)}

HolNext ==
    \/ NextDay(MaxDayRec)
    \/ createDailyRecords
    \/ \E j \in {<<>>, <<FormatJoined(1)>>} :
          createCustomer(ScheduleA, j, MaxCustomersInv, MaxRecordsInv)
    \/ \E d \in HolidayDates, r \in BOOLEAN : createHoliday(d, r)

HolSpec == Init /\ [][HolNext]_vars

InvoiceIds == {invoices[k]._id : k \in DOMAIN invoices}

\* The service is started on the second day of the second month
InvInit ==
    /\ today = DaysPerMonth + 2
    /\ customers = <<>>
    /\ records = EmptyBag
    /\ updates = <<>>
    /\ holidays = <<>>
    /\ invoices = <<>>
    /\ invoiceSeq = 0
    /\ response = NoResponse
    /\ inflight = <<>>

InvNext ==
    \/ PassTime(InvDays)
    \/ createCustomer(ScheduleBig, <<JoinedInv>>, MaxCustomersInv, MaxRecordsInv)
    \/ \E r \in {x \in BagToSet(records) : x.date = DaysPerMonth}, b \in RecordPriceInputs :
          updateRecord(r, b)
    \/ \E c \in DOMAIN customers, u \in BOOLEAN :
          generateCustomerMonthlyInvoice(c, 1, 1, u, MaxInvoicesPay)
    \/ \E u \in BOOLEAN : generateBatchMonthlyInvoices(1, 1, u, MaxInvoicesPay)
    \/ \E i \in InvoiceIds, a \in PaymentInputs : addPaymentToInvoice(i, a, "online", NoTx, MaxPayments)
    \/ \E c \in DOMAIN customers, a \in AdvanceAddInputs : createAdvancePayment(c, a)
    \/ \E c \in DOMAIN customers, a \in AdvanceSetInputs : updateAdvanceAmount(c, a)
    \/ \E c \in DOMAIN customers : clearAdvanceAmount(c)

InvSpec == InvInit /\ [][InvNext]_vars

(* The invoice periods: generation, regeneration and deletion of invoices   *)
(* that carry no payment                                                    *)

PeriodNext ==
    \/ PassTime(InvDays)
    \/ createCustomer(ScheduleBig, <<JoinedInv>>, MaxCustomersInv, MaxRecordsInv)
    \/ \E c \in DOMAIN customers, m \in MonthInputs, u \in BOOLEAN :
          generateCustomerMonthlyInvoice(c, m, 1, u, MaxInvoices)
    \/ \E m \in MonthInputs, u \in BOOLEAN :
          generateBatchMonthlyInvoices(m, 1, u, MaxInvoices)
    \/ \E i \in InvoiceIds, a \in PaymentInputs : addPaymentToInvoice(i, a, "cash", NoTx, MaxPayments)
    \/ \E i \in InvoiceIds : deleteInvoice(i)
    \/ \E c \in DOMAIN customers : createAdvancePayment(c, MaxAdvance)

PeriodSpec == InvInit /\ [][PeriodNext]_vars

(* The admin status override on invoices with and without payments          *)

StatusInputs == StatusValues \cup {"void"}

OverrideNext ==
    \/ PassTime(InvDays)
    \/ createCustomer(ScheduleBig, <<JoinedInv>>, MaxCustomersInv, MaxRecordsInv)
    \/ \E c \in DOMAIN customers, m \in MonthInputs :
          generateCustomerMonthlyInvoice(c, m, 1, FALSE, MaxInvoices)
    \/ \E i \in InvoiceIds, a \in PaymentInputs : addPaymentToInvoice(i, a, "cash", NoTx, MaxPayments)
    \/ \E i \in InvoiceIds, st \in StatusInputs : updateInvoiceStatus(i, st)

OverrideSpec == InvInit /\ [][OverrideNext]_vars

(* The adjustment ledger alone: requests for one delivery day, with and     *)
(* without the isAccept field, then accepted, rejected and deleted          *)

IsAcceptBodies == {<<>>, <<TRUE>>}
\* two instants of the delivery day MaxDayRec
AdjDateInputs == {Midnight(MaxDayRec), Midnight(MaxDayRec) + 1}
AdjQuantityInputs == {3, 4}

AdjNext ==
    \/ createCustomer(ScheduleA, <<>>, MaxCustomersInv, MaxRecordsInv)
    \/ \E c \in DOMAIN customers, d \in AdjDateInputs, q \in AdjQuantityInputs,
          ia \in IsAcceptBodies :
          updateCustomerQuantity(c, d, "morning", "cow", "full", q, "less", ia, MaxUpdatesAdj)
    \/ \E k \in 1..Len(updates), l \in LastUpdatedInputs : acceptQuantityUpdate(k, l)
    \/ \E k \in 1..Len(updates) : rejectQuantityUpdate(k, <<"less">>)
    \/ \E k \in 1..Len(updates) : deleteQuantityUpdate(k)

AdjSpec == Init /\ [][AdjNext]_vars

(* Batch invoicing of several customers: some with a delivery history,      *)
(* some without, some already invoiced, some deactivated                    *)

BatchNext ==
    \/ \E j \in {<<>>, <<JoinedInv>>} :
          createCustomer(ScheduleBig, j, MaxCustomers, MaxRecordsBatch)
    \/ \E c \in DOMAIN customers : updateCustomer(c, <<FALSE>>, <<>>)
    \/ \E c \in DOMAIN customers : generateCustomerMonthlyInvoice(c, 1, 1, FALSE, MaxInvoices)
    \/ \E u \in BOOLEAN : generateBatchMonthlyInvoices(1, 1, u, MaxInvoices)

BatchSpec == InvInit /\ [][BatchNext]_vars

(* Backfill at customer creation: join dates in the past, today and in the  *)
(* future, with holidays declared before the customer joins                 *)

BackfillJoinDays == 1..(MaxDayBack + 1)
BackfillHolidays == {Midnight(1), Midnight(2)}

BackfillNext ==
    \/ NextDay(MaxDayBack)
    \/ \E d \in BackfillHolidays : createHoliday(d, FALSE)
    \/ \E j \in BackfillJoinDays :
          createCustomer(ScheduleA, <<FormatJoined(j)>>, MaxCustomers, MaxRecordsBatch)

BackfillSpec == Init /\ [][BackfillNext]_vars

(* Overlapping runs of the daily batch on one day                           *)

DailyNext ==
    \/ createCustomer(ScheduleA, <<>>, MaxCustomers, MaxRecords)
    \/ dailyStart(MaxRuns)
    \/ \E i \in 1..Len(inflight) : dailyCheck(i)
    \/ \E i \in 1..Len(inflight) : dailyCreate(i, MaxRecords)
    \/ \E i \in 1..Len(inflight) : dailyFinish(i)

DailySpec == Init /\ [][DailyNext]_vars

(* Records under later changes of what they were built from: schedule      *)
(* edits, adjustments for the recorded day, batch re-runs, record edits     *)

ScheduleEdit == << RawSlot("morning", << RawItem("cow", "full", 5, 70) >>) >>
FrameBodyInputs ==
    { [deliverySchedule |-> <<>>, totalDailyQuantity |-> <<>>, totalDailyPrice |-> <<500>>] }

FrameNext ==
    \/ createDailyRecords
    \/ createCustomer(ScheduleA, <<>>, MaxCustomersInv, MaxRecordsInv)
    \/ \E c \in DOMAIN customers : updateCustomer(c, <<>>, <<ScheduleEdit>>)
    \/ \E c \in DOMAIN customers :
          updateCustomerQuantity(c, Midnight(today), "morning", "cow", "full", 3, "less",
                                 <<>>, MaxUpdates)
    \/ \E k \in 1..Len(updates), l \in LastUpdatedInputs : acceptQuantityUpdate(k, l)
    \/ \E k \in 1..Len(updates) : rejectQuantityUpdate(k, <<"less">>)
    \/ \E r \in BagToSet(records), b \in FrameBodyInputs : updateRecord(r, b)
    \/ \E r \in BagToSet(records) : deleteRecord(r)

FrameSpec == Init /\ [][FrameNext]_vars

(* Payments and their transaction ids: one customer, two invoices, several  *)
(* payments on each, in two calendar years                                  *)

TxDays == {MonthsPerYear * DaysPerMonth + 1}
SuppliedTx == [year |-> 1, customerNo |-> 1, seq |-> 5]
\* (paymentMethod, transactionId) of the request body
TxBodies == {<<"online", NoTx>>, <<"cash", SuppliedTx>>}

\* customers join in the first year
TxNext ==
    \/ PassTime(TxDays)
    \/ /\ today \notin TxDays
       /\ createCustomer(ScheduleBig, <<JoinedInv>>, MaxCustomersInv, MaxRecordsInv)
    \/ \E c \in DOMAIN customers, m \in MonthInputs :
          generateCustomerMonthlyInvoice(c, m, 1, FALSE, MaxInvoices)
    \/ \E i \in InvoiceIds, a \in PaymentInputs, b \in TxBodies :
          addPaymentToInvoice(i, a, b[1], b[2], MaxPaymentsTx)

TxSpec == InvInit /\ [][TxNext]_vars

(* Invoicing during the month that is still running                        *)

GuardNext ==
    \/ NextDay(DaysPerMonth)
    \/ createDailyRecords
    \/ createCustomer(ScheduleBig, <<FormatJoined(1)>>, MaxCustomersInv, MaxRecordsBatch)
    \/ \E m \in MonthInputs, u \in BOOLEAN :
          generateBatchMonthlyInvoices(m, 1, u, MaxInvoicesPay)
    \/ \E c \in DOMAIN customers, m \in MonthInputs, u \in BOOLEAN :
          generateCustomerMonthlyInvoice(c, m, 1, u, MaxInvoicesPay)

GuardSpec == Init /\ [][GuardNext]_vars

(* Requests that are refused: unknown ids, invalid months and amounts       *)

UnknownId == 0
ErrMonthInputs == {1, 3, MonthsPerYear + 1}
ErrPaymentInputs == {700, 0, -5}
ErrAdvanceInputs == {JNum(2500), JNum(-5), JStr("abc"), JStr(""), JNull, JMissing}

ErrNext ==
    \/ createCustomer(ScheduleBig, <<JoinedInv>>, MaxCustomersInv, MaxRecordsInv)
    \/ \E c \in DOMAIN customers \cup {UnknownId}, m \in ErrMonthInputs :
          generateCustomerMonthlyInvoice(c, m, 1, FALSE, MaxInvoicesPay)
    \/ generateBatchMonthlyInvoices(MonthsPerYear + 1, 1, FALSE, MaxInvoicesPay)
    \/ \E i \in InvoiceIds \cup {UnknownId}, a \in ErrPaymentInputs :
          addPaymentToInvoice(i, a, "cash", NoTx, MaxPayments)
    \/ \E c \in DOMAIN customers \cup {UnknownId}, a \in ErrAdvanceInputs :
          updateAdvanceAmount(c, a)
    \/ \E c \in DOMAIN customers :
          updateCustomerQuantity(c, Midnight(today), "morning", "cow", "full", 3, "less",
                                 <<>>, MaxUpdates)
    \/ \E k \in 0..Len(updates), l \in LastUpdatedInputs : acceptQuantityUpdate(k, l)
    \/ \E k \in 0..Len(updates) : rejectQuantityUpdate(k, <<"less">>)
    \/ \E k \in 0..Len(updates) : deleteQuantityUpdate(k)

ErrSpec == InvInit /\ [][ErrNext]_vars

(* Overlapping invoice-generate requests                                   *)

GenRaceNext ==
    \/ createCustomer(ScheduleBig, <<JoinedInv>>, MaxCustomersInv, MaxRecordsInv)
    \/ \E c \in DOMAIN customers : createAdvancePayment(c, MaxAdvance)
    \/ \E c \in DOMAIN customers : genCheck(c, 1, 1, FALSE, MaxRuns)
    \/ \E i \in 1..Len(inflight) : genNumber(i)
    \/ \E i \in 1..Len(inflight) : genCredit(i)
    \/ \E i \in 1..Len(inflight) : genCreate(i, MaxInvoices)

GenRaceSpec == InvInit /\ [][GenRaceNext]_vars

(* Overlapping add-payment requests                                        *)

PayRaceInputs == {700, 3500}

PayRaceNext ==
    \/ createCustomer(ScheduleBig, <<JoinedInv>>, MaxCustomersInv, MaxRecordsInv)
    \/ \E c \in DOMAIN customers :
          generateCustomerMonthlyInvoice(c, 1, 1, FALSE, MaxInvoicesPay)
    \/ \E id \in InvoiceIds, a \in PayRaceInputs : payLoad(id, a, MaxRuns)
    \/ \E i \in 1..Len(inflight) : paySave(i, MaxPaymentsTx)
    \/ \E i \in 1..Len(inflight) : payCustomer(i)
    \/ \E i \in 1..Len(inflight) : payCredit(i)

PayRaceSpec == InvInit /\ [][PayRaceNext]_vars

----------------------------------------------------------------------------
(* Properties *)

RecordsOf(recs, c, day) == {r \in BagToSet(recs) : r.customer = c /\ r.date = day}
CountRecords(recs, c, day) ==
    BagCardinality([r \in RecordsOf(recs, c, day) |-> CopiesIn(r, recs)])

\* C1: after any sequence of daily batch runs and backfills there is at most
\* one DailyRecord per (customer, date); a batch run leaves the record of a
\* customer who already has one for today untouched, does not report that
\* customer as created or as failed, and when every active customer already
\* has today's record the run changes nothing and answers with success (201)
C1_OneRecordPerDay ==
    /\ [](\A r \in BagToSet(records) : CountRecords(records, r.customer, r.date) = 1)
    /\ [][response'.op = "createDailyRecords" =>
            /\ \A c \in DOMAIN customers :
                  RecordExists(records, c, today) =>
                      /\ CountRecords(records', c, today) = 1
                      /\ RecordsOf(records', c, today) = RecordsOf(records, c, today)
                      /\ c \notin Range(response'.info)
                      /\ response'.customer # c
            /\ ( /\ ~checkIfHoliday(today)
                 /\ \A c \in ActiveCustomers : RecordExists(records, c, today) )
               => (response'.status = 201 /\ records' = records)]_vars

\* C1 witness: the batch has just re-run on a day for which an active
\* customer already had a record; it created nothing and answered 201
C1_Witness ==
    /\ response.op = "createDailyRecords"
    /\ response.status = 201
    /\ response.info = <<>>
    /\ \E c \in ActiveCustomers : CountRecords(records, c, today) = 1

\* the line items of a record, all slots together
RecordLines(rec) ==
    Flatten([i \in 1..Len(rec.deliverySchedule) |-> rec.deliverySchedule[i].milkItems])

\* C8: every persisted DailyRecord has totalDailyPrice = sum of its slots'
\* totalPrice = sum over its line items of quantity x pricePerUnit, and
\* totalDailyQuantity = sum of its line quantities, also after updateRecord
C8_RecordTotalsConserved ==
    \A r \in BagToSet(records) :
        LET lines == RecordLines(r)
        IN /\ r.totalDailyPrice =
                 SumSeq([i \in 1..Len(r.deliverySchedule) |-> r.deliverySchedule[i].totalPrice])
           /\ r.totalDailyPrice =
                 SumSeq([i \in 1..Len(lines) |-> lines[i].quantity * lines[i].pricePerUnit])
           /\ r.totalDailyQuantity = SumSeq([i \in 1..Len(lines) |-> lines[i].quantity])

\* the adjustments of customer c for the day and the key (slot, milk type, subcategory)
AdjustmentsForKey(c, day, time, mt, sc) ==
    {k \in 1..Len(updates) :
        /\ updates[k].customer = c
        /\ DayOf(updates[k].date) = day
        /\ updates[k].time = time
        /\ updates[k].milkType = mt
        /\ updates[k].subcategory = sc}

\* C9: in the daily batch the quantity recorded for a schedule line item is
\* the adjustment's newQuantity exactly when an accepted adjustment exists
\* for its (customer, date, slot, milk type, subcategory) key; with no
\* adjustment, or with a pending one, it is the schedule's default quantity
C9_AdjustmentUsedOnlyWhenAccepted ==
    [][(response'.op = "createDailyRecords" /\ response'.status = 201) =>
        \A c \in Range(response'.info) :
          \A rec \in RecordsOf(records', c, today) :
            \A i \in 1..Len(rec.deliverySchedule) :
              \A j \in 1..Len(rec.deliverySchedule[i].milkItems) :
                LET line == rec.deliverySchedule[i].milkItems[j]
                    adj == AdjustmentsForKey(c, today, rec.deliverySchedule[i].time,
                                             line.milkType, line.subcategory)
                    accepted == {k \in adj : updates[k].status = "accepted"}
                    default == customers[c].deliverySchedule[i].milkItems[j].quantity
                IN /\ accepted # {} => \E k \in accepted : line.quantity = updates[k].newQuantity
                   /\ (adj = {} \/ \A k \in adj : updates[k].status = "pending")
                         => line.quantity = default]_vars

\* C10: in the daily batch a customer who has a rejected adjustment for the
\* target date gets no DailyRecord for that date
C10_RejectedAdjustmentSkipsCustomer ==
    [][response'.op = "createDailyRecords" =>
        \A c \in DOMAIN customers :
          (\E k \in 1..Len(updates) :
               /\ updates[k].customer = c
               /\ DayOf(updates[k].date) = today
               /\ updates[k].status = "rejected"
               /\ updates[k].isAccept = FALSE)
            => /\ c \notin Range(response'.info)
               /\ RecordsOf(records', c, today) = RecordsOf(records, c, today)]_vars

\* the invoices as a set of documents, and their ids
InvoiceDocs(invs) == Range(invs)
IdsOf(invs) == {invs[k]._id : k \in DOMAIN invs}
InvoiceById(invs, id) == invs[CHOOSE k \in DOMAIN invs : invs[k]._id = id]

\* the status the priority rule gives at the instant `now`
RuleStatus(inv, now) ==
    IF inv.dueAmount <= 0 THEN "paid"
    ELSE IF inv.amountPaid > 0 THEN "partially_paid"
    ELSE IF Midnight(inv.dueDate) < now THEN "overdue"
    ELSE "pending"

\* C2: every persisted invoice satisfies dueAmount = totalAmount - amountPaid,
\* and an invoice written by a step (created, updated in place, paid) carries
\* the status of the priority rule evaluated at an instant of the day of that
\* step: paid if dueAmount <= 0, else partially_paid if amountPaid > 0, else
\* overdue if dueDate < now, else pending
C2_InvoiceSaveRule ==
    /\ [](\A inv \in InvoiceDocs(invoices) :
             /\ inv.dueAmount = inv.totalAmount - inv.amountPaid
             /\ (inv.status = "paid") <=> (inv.dueAmount <= 0)
             /\ (inv.status = "partially_paid") <=> (inv.dueAmount > 0 /\ inv.amountPaid > 0))
    /\ [][\A inv \in InvoiceDocs(invoices') \ InvoiceDocs(invoices) :
             \E tod \in TimesOfDay :
                inv.status = RuleStatus(inv, Midnight(today) + tod)]_vars

\* C2 witness: regeneration has just saved an unpaid invoice on its due day,
\* after the due instant, and the save made it overdue
C2_Witness ==
    /\ response.op = "generateCustomer"
    /\ response.status = 200
    /\ LET inv == InvoiceById(invoices, response.info[1])
       IN /\ inv.status = "overdue"
          /\ inv.amountPaid = 0
          /\ inv.dueAmount = inv.totalAmount
          /\ inv.dueDate = today

\* C3: when a new invoice with total T is created for a customer whose credit
\* is c > 0, it gets exactly one payment, of method advance and amount
\* min(c, T), amountPaid = min(c, T), dueAmount = T - min(c, T), status paid
\* if c >= T and partially_paid otherwise, and the credit becomes
\* c - min(c, T); when c = 0 it has no payment and the credit is unchanged
C3_CreditConsumedAtCreation ==
    [][\A inv \in InvoiceDocs(invoices') :
          inv._id \notin IdsOf(invoices) =>
             LET c == customers[inv.customer].advance
                 T == inv.totalAmount
                 used == Min(c, T)
             IN /\ c > 0 =>
                     /\ Len(inv.payments) = 1
                     /\ inv.payments[1].paymentMethod = "advance"
                     /\ inv.payments[1].amount = used
                     /\ inv.amountPaid = used
                     /\ inv.dueAmount = T - used
                     /\ inv.status = IF c >= T THEN "paid" ELSE "partially_paid"
                     /\ customers'[inv.customer].advance = c - used
                /\ c = 0 =>
                     /\ inv.payments = <<>>
                     /\ customers'[inv.customer].advance = 0]_vars

\* C3 witness: the example, T = 3000 invoiced against a credit of 3500
C3_Witness ==
    /\ response.op \in {"generateCustomer", "generateBatch"}
    /\ \E inv \in InvoiceDocs(invoices) :
          /\ inv.totalAmount = 3000
          /\ inv.dueAmount = 0
          /\ inv.status = "paid"
          /\ inv.payments = <<AdvancePayment(3000)>>
          /\ customers[inv.customer].advance = 500

\* C4: an accepted add-payment of amount a on an invoice with due amount d
\* appends one payment of min(a, d), raises amountPaid by min(a, d) and adds
\* a - min(a, d) to the customer's credit
C4_PaymentSplit ==
    [][(response'.op = "addPayment" /\ response'.status = 200) =>
          LET id == response'.info[1]
              a == response'.info[2]
              before == InvoiceById(invoices, id)
              after == InvoiceById(invoices', id)
              applied == Min(a, before.dueAmount)
              c == before.customer
          IN /\ Len(after.payments) = Len(before.payments) + 1
             /\ SubSeq(after.payments, 1, Len(before.payments)) = before.payments
             /\ after.payments[Len(after.payments)].amount = applied
             /\ after.amountPaid = before.amountPaid + applied
             /\ customers'[c].advance = customers[c].advance + (a - applied)
             /\ applied + (customers'[c].advance - customers[c].advance) = a]_vars

\* C4 witness: the example, 700 paid on an invoice that had 500 due
C4_Witness ==
    /\ response.op = "addPayment"
    /\ response.status = 200
    /\ response.info[2] = 700
    /\ LET inv == InvoiceById(invoices, response.info[1])
       IN /\ inv.totalAmount = 500
          /\ inv.dueAmount = 0
          /\ inv.status = "paid"
          /\ inv.payments[Len(inv.payments)].amount = 500
          /\ customers[inv.customer].advance = 200

\* C5: no two invoices of the same customer have intersecting
\* [startDate, endDate] periods
C5_NoOverlappingPeriods ==
    \A k, m \in DOMAIN invoices :
        (k # m /\ invoices[k].customer = invoices[m].customer)
           => ~(invoices[k].startDate <= invoices[m].endDate
                /\ invoices[m].startDate <= invoices[k].endDate)

\* C5 witness: a customer holds two invoices and a further generate request
\* for an invoiced month has just been refused
C5_Witness ==
    /\ response.op = "generateCustomer"
    /\ response.status = 400
    /\ \E k, m \in DOMAIN invoices :
          k # m /\ invoices[k].customer = invoices[m].customer

\* the credit movements of customer c in a step
OverageCredited(c) ==
    IF response'.op = "addPayment" /\ response'.status = 200 /\ response'.customer = c
    THEN LET d == InvoiceById(invoices, response'.info[1]).dueAmount
         IN IF response'.info[2] > d THEN response'.info[2] - d ELSE 0
    ELSE 0
ConsumedByNewInvoices(c) ==
    LET new == {k \in DOMAIN invoices' :
                  invoices'[k].customer = c /\ invoices'[k]._id \notin IdsOf(invoices)}
        ks == SeqOfSet(new)
    IN SumSeq([i \in 1..Len(ks) |-> AdvanceApplied(invoices'[ks[i]])])
ClearedManually(c) ==
    IF response'.op = "clearAdvanceAmount" /\ response'.status = 200 /\ response'.customer = c
    THEN customers[c].advance ELSE 0
AddedDirectly(c) ==
    IF response'.op = "createAdvancePayment" /\ response'.status = 200
       /\ response'.customer = c
    THEN response'.info[1] ELSE 0
ChangedByAdminSet(c) ==
    IF response'.op = "updateAdvanceAmount" /\ response'.status = 200
       /\ response'.customer = c
    THEN response'.info[1] - customers[c].advance ELSE 0

\* C6 as stated: a customer starts with credit 0 and every step changes the
\* credit by the overage credited, minus the credit consumed by new invoices,
\* minus the amount removed by a manual clear, so that the balance is always
\* the sum of the overages minus the consumptions minus the clears
C6_CreditConservation_Stated ==
    [][\A c \in DOMAIN customers' :
          IF c \in DOMAIN customers
          THEN customers'[c].advance - customers[c].advance =
                  OverageCredited(c) - ConsumedByNewInvoices(c) - ClearedManually(c)
          ELSE customers'[c].advance = 0]_vars

\* C6 amended: the balance is the sum of the overages credited, plus the
\* amounts added by direct advance creation, plus the net changes made by
\* admin sets, minus the credit consumed by new invoices, minus the amounts
\* removed by manual clears
C6_CreditConservation ==
    [][\A c \in DOMAIN customers' :
          IF c \in DOMAIN customers
          THEN customers'[c].advance - customers[c].advance =
                  OverageCredited(c) + AddedDirectly(c) + ChangedByAdminSet(c)
                  - ConsumedByNewInvoices(c) - ClearedManually(c)
          ELSE customers'[c].advance = 0]_vars

\* C6 witness: a payment overage of 200 has just been credited on top of a
\* directly created advance of 3500
C6_Witness ==
    /\ response.op = "addPayment"
    /\ response.status = 200
    /\ customers[response.customer].advance = 3700

\* C7: a customer's credit balance is >= 0 in every reachable state
C7_CreditNonNegative ==
    \A c \in DOMAIN customers : customers[c].advance >= 0

\* the holiday oracle as the rule states it: an exact-date entry for the day,
\* or a yearly-recurring entry with the same month and day of month
HolidayOn(day) ==
    \E k \in 1..Len(holidays) :
        \/ DayOf(holidays[k].date) = day
        \/ /\ holidays[k].isRecurringYearly
           /\ MonthOfYear(DayOf(holidays[k].date)) = MonthOfYear(day)
           /\ DayOfMonth(DayOf(holidays[k].date)) = DayOfMonth(day)
RecordsOnDay(recs, day) == {r \in BagToSet(recs) : r.date = day}

\* C11: no step (daily batch, backfill at customer creation) creates a
\* DailyRecord for a date the oracle reports as a holiday, and the daily batch
\* on a holiday answers with its own non-error outcome (200, not 201 or 500)
\* with no record created
C11_NoRecordOnHoliday ==
    [][/\ \A d \in 1..today :
            HolidayOn(d) =>
               \A r \in RecordsOnDay(records', d) :
                  CopiesIn(r, records') = CopiesIn(r, records)
       /\ (response'.op = "createDailyRecords" /\ HolidayOn(today)) =>
             /\ response'.status = 200
             /\ response'.info = <<>>
             /\ records' = records]_vars

\* C11 witness: the batch has just answered 200 on a day that a yearly entry
\* of another year makes a holiday, with an active customer lacking a record
C11_Witness ==
    /\ response.op = "createDailyRecords"
    /\ response.status = 200
    /\ \E k \in 1..Len(holidays) :
          holidays[k].isRecurringYearly /\ DayOf(holidays[k].date) # today
    /\ \E c \in ActiveCustomers : ~RecordExists(records, c, today)

\* the invoices of customer c whose period intersects the month
OverlappingInvoices(c, month, year) ==
    {inv \in InvoiceDocs(invoices) :
        /\ inv.customer = c
        /\ inv.startDate <= LastDayOfMonth(year, month)
        /\ inv.endDate >= FirstDayOfMonth(year, month)}

\* C12: single-customer generation with updateExisting false for a month
\* whose period intersects an existing invoice of the customer answers 400
\* with the existing invoice's id and number, and leaves every invoice and
\* every customer (credit balance included) as they were
C12_OverlapRefused ==
    [][\A c \in DOMAIN customers, m \in MonthInputs :
          ( /\ OverlappingInvoices(c, m, 1) # {}
            /\ generateCustomerMonthlyInvoice(c, m, 1, FALSE, MaxInvoices) )
          => /\ response'.status = 400
             /\ \E inv \in OverlappingInvoices(c, m, 1) :
                   response'.info = <<inv._id, inv.invoiceNumber>>
             /\ invoices' = invoices
             /\ customers' = customers]_vars

\* C12 witness: a generate request for an invoiced month has just been
\* refused with the id and number of the invoice that covers it
C12_Witness ==
    /\ response.op = "generateCustomer"
    /\ response.status = 400
    /\ Len(response.info) = 2
    /\ \E inv \in InvoiceDocs(invoices) :
          /\ inv.customer = response.customer
          /\ response.info = <<inv._id, inv.invoiceNumber>>
          /\ Len(inv.payments) = 1

\* the current DailyRecords of customer c in the month, oldest first
PeriodRecords(c, month, year) ==
    SortByDate({r \in BagToSet(records) :
                  /\ r.customer = c
                  /\ r.date >= FirstDayOfMonth(year, month)
                  /\ r.date <= LastDayOfMonth(year, month)})

\* the invoice of c that overlaps the month was recomputed from the current
\* records and nothing else of it, and no credit, changed
RecomputedInPlace(c, month, year) ==
    LET recs == PeriodRecords(c, month, year)
        total == SumSeq([i \in 1..Len(recs) |-> recs[i].totalDailyPrice])
    IN \A old \in OverlappingInvoices(c, month, year) :
          /\ old._id \in IdsOf(invoices')
          /\ LET new == InvoiceById(invoices', old._id)
             IN /\ new.totalAmount = total
                /\ new.totalQuantity =
                      SumSeq([i \in 1..Len(recs) |-> recs[i].totalDailyQuantity])
                /\ Len(new.items) = Len(recs)
                /\ \A i \in 1..Len(recs) :
                      /\ new.items[i].date = recs[i].date
                      /\ new.items[i].deliverySchedule = recs[i].deliverySchedule
                      /\ new.items[i].totalDailyPrice = recs[i].totalDailyPrice
                      /\ new.items[i].totalDailyQuantity = recs[i].totalDailyQuantity
                /\ new.dueAmount = total - old.amountPaid
                /\ new.payments = old.payments
                /\ new.amountPaid = old.amountPaid
                /\ new.invoiceNumber = old.invoiceNumber
                /\ customers'[c].advance = customers[c].advance

C15_StatusOverrideUnconditional ==
    [][\A i \in IdsOf(invoices), st \in StatusInputs :
          updateInvoiceStatus(i, st) =>
             IF st \in StatusValues
             THEN /\ response'.status = 200
                  /\ InvoiceById(invoices', i).status = st
             ELSE /\ response'.status = 400
                  /\ invoices' = invoices]_vars

\* the key of an adjustment: customer, delivery day, slot, milk type, subcategory
AdjustmentKey(u) == <<u.customer, DayOf(u.date), u.time, u.milkType, u.subcategory>>

\* C16: the ledger holds at most one adjustment per (customer, date, slot,
\* milk type, subcategory) key, after any sequence of create/update, accept,
\* reject and delete requests executed one at a time
C16_OneAdjustmentPerKey ==
    \A k, m \in 1..Len(updates) :
        k # m => AdjustmentKey(updates[k]) # AdjustmentKey(updates[m])

\* C17: for every adjustment the accept flag mirrors the status: isAccept is
\* true if and only if the status is accepted
C17_AcceptFlagMirrorsStatus ==
    \A k \in 1..Len(updates) :
        updates[k].isAccept <=> (updates[k].status = "accepted")

\* C18: the adjustment create/update request leaves every stored customer as
\* it was, whatever the request and its outcome; on success the requested
\* quantity is held by the ledger entry of the request's key
C18_AdjustmentLeavesCustomer ==
    [][\A c \in DOMAIN customers, d \in AdjDateInputs, q \in AdjQuantityInputs,
          ia \in IsAcceptBodies :
          updateCustomerQuantity(c, d, "morning", "cow", "full", q, "less", ia, MaxUpdatesAdj)
          => /\ customers' = customers
             /\ \E k \in 1..Len(updates') :
                   /\ updates'[k].customer = c
                   /\ updates'[k].date = d
                   /\ updates'[k].newQuantity = q]_vars

\* an adjustment asks for a quantity that the stored schedule does not have
C18_Witness ==
    /\ response.op = "updateCustomerQuantity"
    /\ response.status = 200
    /\ \E k \in 1..Len(updates) :
          LET cust == customers[updates[k].customer]
              pos == FindScheduleItem(cust.deliverySchedule, updates[k].time,
                                      updates[k].milkType, updates[k].subcategory)
          IN /\ pos # <<0, 0>>
             /\ cust.deliverySchedule[pos[1]].milkItems[pos[2]].quantity
                   # updates[k].newQuantity

\* the record the daily batch builds for customer c today passes the
\* record validators
BuildsValidRecord(c) ==
    RecordValid(BuildRecord(c, today, customers[c].deliverySchedule, UpdatesFor(c, today)))

\* C19: in the daily batch on a working day, a customer whose record fails
\* validation does not stop the batch: every active customer whose record is
\* valid has a record for today when the batch has run
C19_BatchSurvivesFailure ==
    [][( /\ createDailyRecords
         /\ ~checkIfHoliday(today) )
       => \A c \in ActiveCustomers :
             BuildsValidRecord(c) => RecordExists(records', c, today)]_vars

\* how often customer c is listed in the sequence s
Occurrences(s, c) == Cardinality({i \in 1..Len(s) : s[i] = c})

\* C20: batch invoice generation reports every active customer in exactly
\* one of the created, updated and failed lists, the three lists add up to
\* totalProcessed, and a customer that fails (invoice exists without
\* updateExisting, no records in the period) does not keep the others from
\* being invoiced or updated
C20_BatchReportsEveryCustomer ==
    [][\A u \in BOOLEAN :
          ( /\ generateBatchMonthlyInvoices(1, 1, u, MaxInvoices)
            /\ response'.status = 200 )
          => LET created == response'.info[1]
                 updated == response'.info[2]
                 failed == response'.info[3]
                 totalProcessed == response'.info[4]
                 listed == created \o updated \o failed
             IN /\ totalProcessed = Cardinality(ActiveCustomers)
                /\ Len(listed) = totalProcessed
                /\ Range(listed) \subseteq ActiveCustomers
                /\ \A c \in ActiveCustomers :
                      LET has == OverlappingInvoices(c, 1, 1) # {}
                          recs == RecordsOfMonthBatch(c, FirstDayOfMonth(1, 1),
                                                      LastDayOfMonth(1, 1))
                      IN /\ Occurrences(listed, c) = 1
                         /\ (has /\ ~u) => c \in Range(failed)
                         /\ (~has /\ recs = <<>>) => c \in Range(failed)
                         /\ (has /\ u /\ recs # <<>>) => c \in Range(updated)
                         /\ (~has /\ recs # <<>>) =>
                               /\ c \in Range(created)
                               /\ \E inv \in InvoiceDocs(invoices') :
                                     /\ inv.customer = c
                                     /\ inv.startDate = FirstDayOfMonth(1, 1)]_vars

\* a batch in which a customer failed and a customer processed after it was
\* invoiced
C20_Witness ==
    /\ response.op = "generateBatch"
    /\ response.status = 200
    /\ \E i \in 1..Len(response.info[3]), j \in 1..Len(response.info[1]) :
          response.info[3][i] < response.info[1][j]

\* the dates the backfill of a customer joined on day j has to fill
BackfillDays(j) == {d \in 1..(MaxDayBack + 2) : j <= d /\ d <= today - 1 /\ ~HolidayOn(d)}

\* C21: creating a customer with join date J stores exactly one DailyRecord
\* of the new customer for each non-holiday date from J through yesterday,
\* none for today or later, reports as many records as it created, and with
\* J in the future it reports zero and creates nothing
C21_BackfillThroughYesterday ==
    [][\A j \in BackfillJoinDays :
          createCustomer(ScheduleA, <<FormatJoined(j)>>, MaxCustomers, MaxRecordsBatch)
          => LET c == NextCustomerNo
             IN /\ \A d \in 1..(MaxDayBack + 2) :
                      CountRecords(records', c, d) = IF d \in BackfillDays(j) THEN 1 ELSE 0
                /\ Len(response'.info) = Cardinality(BackfillDays(j))
                /\ Len(response'.info) = BagCardinality(records') - BagCardinality(records)
                /\ \A r \in BagToSet(records) : CopiesIn(r, records') = CopiesIn(r, records)
                /\ j > today => /\ response'.status = 201
                                /\ response'.info = <<>>
                                /\ records' = records]_vars

\* a customer joined two days ago, with a holiday in between: one record
C21_Witness ==
    /\ response.op = "createCustomer"
    /\ response.status = 201
    /\ today = 3
    /\ HolidayOn(1)
    /\ response.info = <<2>>
    /\ CountRecords(records, response.customer, 2) = 1
    /\ CountRecords(records, response.customer, 3) = 0

\* the runs of the daily batch that have answered
FinishedRuns == {i \in DailyRuns : inflight[i].pc = "done"}

\* C22: no interleaving of two runs of the daily batch stores two records
\* for one (customer, date), and once every run has answered, each customer
\* that was active when a run loaded the customers has exactly one record
\* for the date
C22_ConcurrentBatchSafe ==
    /\ \A c \in DOMAIN customers, d \in 1..today : CountRecords(records, c, d) <= 1
    /\ (DailyRuns # {} /\ FinishedRuns = DailyRuns) =>
          \A i \in DailyRuns : \A c \in Range(inflight[i].all) :
              CountRecords(records, c, inflight[i].day) = 1

\* C23: a stored DailyRecord is changed or removed only by the record edit
\* and the record delete; a schedule edit, and the creation, acceptance or
\* rejection of an adjustment, leave every stored record as it was
C23_RecordIndependentOfLaterEdits ==
    [][/\ \A r \in BagToSet(records) :
            CopiesIn(r, records') # CopiesIn(r, records)
               => response'.op \in {"updateRecord", "deleteRecord"}
       /\ response'.op \in {"updateCustomer", "updateCustomerQuantity",
                             "acceptQuantityUpdate", "rejectQuantityUpdate"}
            => records' = records]_vars

\* the schedule was edited after the customer's record was stored, and the
\* record still carries the quantity of the day it was made
C23_Witness ==
    /\ response.op = "updateCustomer"
    /\ response.status = 200
    /\ \E r \in BagToSet(records) :
          /\ r.customer = response.customer
          /\ r.deliverySchedule[1].milkItems[1].quantity
                # customers[r.customer].deliverySchedule[1].milkItems[1].quantity

\* the payments in the histories of all invoices of customer c
PaymentsOf(invs, c) ==
    UNION {Range(invs[k].payments) : k \in {m \in 1..Len(invs) : invs[m].customer = c}}

\* the sequence numbers of the ids {year}_{customerNo}_{n} among them
SequencesOf(invs, c, year, customerNo) ==
    {p.transactionId.seq : p \in {q \in PaymentsOf(invs, c) :
                                     /\ q.transactionId.year = year
                                     /\ q.transactionId.customerNo = customerNo}}

SetMax(S) == IF S = {} THEN 0 ELSE CHOOSE n \in S : \A m \in S : m <= n

\* the (invoice, position) places of the payments with a generated id
GeneratedPlaces(invs) ==
    {<<k, i>> \in (1..Len(invs)) \X (1..MaxPaymentsTx + 1) :
        i <= Len(invs[k].payments) /\ invs[k].payments[i].paymentMethod = "online"}

\* C24: a payment without a supplied id and not in cash gets the id
\* {year}_{customerNo}_{n} with n = 1 + the largest sequence of that form in
\* the payment histories of all of the customer's invoices (1 when none),
\* and afterwards no two generated ids of one customer are equal
C24_TransactionIdSequence ==
    [][\A i \in InvoiceIds, a \in PaymentInputs :
          ( /\ response'.op = "addPayment"
            /\ response'.status = 200
            /\ response'.info = <<i, a>>
            /\ addPaymentToInvoice(i, a, "online", NoTx, MaxPaymentsTx) )
          => LET c == InvoiceById(invoices, i).customer
                 after == InvoiceById(invoices', i).payments
                 p == after[Len(after)]
             IN /\ Len(after) = Len(InvoiceById(invoices, i).payments) + 1
                /\ p.transactionId =
                      [year |-> YearOf(today), customerNo |-> customers[c].customerNo,
                       seq |-> 1 + SetMax(SequencesOf(invoices, c, YearOf(today),
                                                      customers[c].customerNo))]
                /\ \A x, y \in GeneratedPlaces(invoices') :
                      ( /\ x # y
                        /\ invoices'[x[1]].customer = invoices'[y[1]].customer )
                      => invoices'[x[1]].payments[x[2]].transactionId
                           # invoices'[y[1]].payments[y[2]].transactionId]_vars

\* a generated id that follows a supplied id of the same form on another
\* invoice of the customer
C24_Witness ==
    /\ response.op = "addPayment"
    /\ response.status = 200
    /\ \E k, m \in 1..Len(invoices) :
          /\ k # m
          /\ invoices[k].customer = invoices[m].customer
          /\ \E p \in Range(invoices[k].payments) : p.transactionId = SuppliedTx
          /\ \E q \in Range(invoices[m].payments) :
                /\ q.paymentMethod = "online"
                /\ q.transactionId = [SuppliedTx EXCEPT !.seq = 6]

\* the month is the current calendar month and 3 or more days remain in it
TooEarlyInMonth(month, year) ==
    /\ MonthOfYear(today) = month /\ YearOf(today) = year
    /\ DaysPerMonth - DayOfMonth(today) >= 3

\* C25: batch generation for the current month is refused, with no invoice
\* created or updated, exactly while 3 or more days remain in the month;
\* single-customer generation for the same month and day is not refused
\* for that reason
C25_CurrentMonthGuard ==
    [][/\ \A m \in MonthInputs, u \in BOOLEAN :
            ( /\ response'.op = "generateBatch"
              /\ generateBatchMonthlyInvoices(m, 1, u, MaxInvoicesPay) )
            => IF TooEarlyInMonth(m, 1)
               THEN /\ response'.status = 400
                    /\ invoices' = invoices
                    /\ customers' = customers
               ELSE response'.status = 200
       /\ \A c \in DOMAIN customers, m \in MonthInputs, u \in BOOLEAN :
            ( /\ response'.op = "generateCustomer"
              /\ TooEarlyInMonth(m, 1)
              /\ generateCustomerMonthlyInvoice(c, m, 1, u, MaxInvoicesPay) )
            => /\ response'.status = 400 => OverlappingInvoices(c, m, 1) # {}
               /\ ( /\ OverlappingInvoices(c, m, 1) = {}
                     /\ RecordsOfMonthSingle(c, FirstDayOfMonth(1, m),
                                              LastDayOfMonth(1, m) + 1) # <<>> )
                     => response'.status = 201]_vars

\* a batch refused early in the month, on a day on which a customer has
\* deliveries to invoice
C25_Witness ==
    /\ response.op = "generateBatch"
    /\ response.status = 400
    /\ response.info = <<"current">>
    /\ TooEarlyInMonth(1, 1)
    /\ \E c \in DOMAIN customers : \E r \in BagToSet(records) : r.customer = c

\* no persisted collection changes in the step
PersistedUnchanged ==
    /\ invoices' = invoices
    /\ customers' = customers
    /\ records' = records
    /\ updates' = updates

\* the credit value of the request is negative or is no number
InvalidCredit(a) == a.type # "number" \/ a.n < 0

\* C26: the requests with an invalid or unresolvable input leave invoices,
\* credit balances, records and adjustments unchanged: generation with a
\* month outside 1..12, for an unknown customer or with no records in the
\* period; a payment with amount <= 0 or on an unknown invoice; an admin
\* credit set with a negative or non-numeric value; delete, accept or reject
\* of an unknown adjustment
C26_ErrorsLeaveState ==
    [][/\ response'.status \in {400, 404} => PersistedUnchanged
       /\ \A c \in DOMAIN customers \cup {UnknownId}, m \in ErrMonthInputs :
            ( /\ response'.op = "generateCustomer"
              /\ \/ m > MonthsPerYear
                 \/ c = UnknownId
                 \/ RecordsOfMonthSingle(c, FirstDayOfMonth(1, m),
                                          LastDayOfMonth(1, m) + 1) = <<>>
              /\ generateCustomerMonthlyInvoice(c, m, 1, FALSE, MaxInvoicesPay) )
            => PersistedUnchanged
       /\ ( /\ response'.op = "generateBatch"
            /\ generateBatchMonthlyInvoices(MonthsPerYear + 1, 1, FALSE, MaxInvoicesPay) )
            => PersistedUnchanged
       /\ \A i \in InvoiceIds \cup {UnknownId}, a \in ErrPaymentInputs :
            ( /\ response'.op = "addPayment"
              /\ (a <= 0 \/ i = UnknownId)
              /\ addPaymentToInvoice(i, a, "cash", NoTx, MaxPayments) )
            => PersistedUnchanged
       /\ \A c \in DOMAIN customers \cup {UnknownId}, a \in ErrAdvanceInputs :
            ( /\ response'.op = "updateAdvanceAmount"
              /\ InvalidCredit(a)
              /\ updateAdvanceAmount(c, a) )
            => PersistedUnchanged
       /\ ( /\ response'.op \in {"acceptQuantityUpdate", "rejectQuantityUpdate",
                                  "deleteQuantityUpdate"}
            /\ \/ acceptQuantityUpdate(UnknownId, 0)
               \/ rejectQuantityUpdate(UnknownId, <<"less">>)
               \/ deleteQuantityUpdate(UnknownId) )
            => PersistedUnchanged]_vars

\* C27: when the create of a new invoice is rejected after the request has
\* applied the customer's credit, the customer's stored credit is what the
\* request found when it loaded the customer
C27_FailedCreateKeepsCredit ==
    [][\A i \in GenRequests :
          ( /\ inflight[i].pc = "create"
            /\ genCreate(i, MaxInvoices)
            /\ inflight'[i].status = 500 )
          => customers'[inflight[i].c].advance = inflight[i].advance]_vars

\* C30: whatever the interleaving of the generate requests for one customer
\* and month, at most one invoice of the customer covers the month and at
\* most one request has taken credit from the customer
C30_ConcurrentGenerateSafe ==
    \A c \in DOMAIN customers :
        /\ Cardinality({k \in 1..Len(invoices) :
                           /\ invoices[k].customer = c
                           /\ invoices[k].startDate <= LastDayOfMonth(1, 1)
                           /\ invoices[k].endDate >= FirstDayOfMonth(1, 1)}) <= 1
        /\ Cardinality({i \in GenRequests :
                           inflight[i].c = c /\ inflight[i].apply.saved}) <= 1

\* C28: every persisted invoice has dueAmount >= 0 and every payment
\* recorded on it has amount >= 0, after any sequence of creation,
\* update-existing (with record edits in between) and add-payment
C28_NoNegativeDue ==
    \A k \in 1..Len(invoices) :
        /\ invoices[k].dueAmount >= 0
        /\ \A p \in 1..Len(invoices[k].payments) : invoices[k].payments[p].amount >= 0

\* C29: in every reachable state, also under interleaved add-payment
\* requests, the amountPaid of every invoice is the sum of the amounts of
\* the payments recorded on it
C29_AmountPaidIsSumOfPayments ==
    \A k \in 1..Len(invoices) :
        invoices[k].amountPaid =
            SumSeq([p \in 1..Len(invoices[k].payments) |-> invoices[k].payments[p].amount])

====
